---- MODULE Spec2Model ----
(***************************************************************************)
(* Model of the NST-Plus capture pipeline.                                 *)
(*                                                                         *)
(*  - SpecQueue / FairSpecQueue: the capture queue of NSTTask              *)
(*    (frontend/components/nst/NSTTask.js): React state with pending       *)
(*    state updates, commits that run the effects, the asynchronous        *)
(*    capture + upload of processNextCapture and the completion handler.   *)
(*  - SpecCamera: DualCameraProvider                                       *)
(*    (frontend/components/common/DualCameraProvider.js, second half of    *)
(*    the file): device list, selections, streams, restart timers and the  *)
(*    health-check interval.                                               *)
(*  - SpecCapture: captureBothCameras under changing selections, and what  *)
(*    saveNSTCapture sends and POST /api/nst-capture stores.               *)
(*  - SpecTeardown: SpecCamera with the unmount of the provider.           *)
(*  - SpecPhoto / FairSpecPhoto: capturePhoto step by step;                *)
(*    SpecRestartCapture: the same next to track-ended events and restarts.*)
(*  - SpecParticipant: Participant.addCompletedTask (backend model).       *)
(*  - SpecStore: the files POST /api/nst-capture writes for a participant. *)
(*  - SpecResults / SpecChecksum / SpecValidate: the results aggregator    *)
(*    (backend/src/utils/resultsAggregator.js) over a session state.       *)
(*  - SpecTrial: handleResponse and the capture policy during a trial.     *)
(*  - SpecPractice: the practice round and the gate to the main task.      *)
(*  - SpecController: the phases of ExperimentController.                  *)
(*  - SpecEffort: PhysicalEffortTask, its trials, captures and completion. *)
(*  - SpecNeutral: the baseline capture of NeutralCapture.                 *)
(*  - SpecHandler: the key presses and timers of ResponseHandler.          *)
(***************************************************************************)
EXTENDS Integers, Sequences, FiniteSets, TLC

(***************************************************************************)
(* Bounds                                                                  *)
(***************************************************************************)
\* number of capture requests the trial engine may enqueue in one run
MaxReq == 3
\* number of video input devices that may be plugged in
MaxDevices == 2
\* number of getUserMedia calls of startMainCamera / startSecondCamera
MaxAcquire == 3
\* number of health-check interval ticks
MaxTicks == 1
\* number of captures stored by POST /api/nst-capture
MaxStored == 1
\* number of addCompletedTask calls for one participant
MaxTasks == 3
\* number of distinct metadata values of a completion
MaxMeta == 2
\* number of POST /api/nst-capture requests one participant's store receives
MaxUploads == 3
\* highest trial number a capture upload may carry
MaxTrialNo == 2
\* number of trials of a session the results are aggregated for
MaxTrials == 2
\* number of digits of a trial's number sequence
TrialLen == 2
\* number of capture references of a session
MaxCaptures == 1
\* number of getFullResults / generateChecksum calls
MaxCalls == 2
\* number of nextDigit timers of handleResponse pending at once
MaxPending == 2
\* number of digits of a practice round generated by the backend
PracticeLen == 5
\* number of onComplete calls a task component may make
MaxCompletes == 3
\* number of orders of the shuffled trials, less one
MaxShuffle == 1
\* number of trial captures of PhysicalEffortTask unresolved at once
MaxOutstanding == 2
\* number of trial captures of PhysicalEffortTask that fail
MaxFailed == 1
\* number of times the baseline capture is started
MaxRuns == 2
\* number of keypress events ResponseHandler receives
MaxPresses == 3
\* number of digits the store shows after the first one
MaxAdvance == 1

(***************************************************************************)
(* Program constants                                                       *)
(***************************************************************************)
\* digits per trial
NumDigits == 15
\* nstConfig.captureConfig
FirstCapture == 0
CaptureInterval == 3
\* accuracy in percent a practice round needs
RequiredAccuracy == 80
\* repetitions of each dot in the physical-effort task
totalRepetitions == 5
\* NeutralCapture: number of baseline captures, seconds of the countdown
TOTAL_CAPTURES == 5
CountdownFrom == 3

VARIABLES
  \* ---- NSTTask: committed React / redux state of the last render
  taskPhase,            \* useState taskPhase
  captureQueue,         \* useState captureQueue
  isProcessingCaptures, \* useState isProcessingCaptures
  isComplete,           \* experimentState.isComplete as rendered
  mounted,              \* NSTTask is mounted
  batching,             \* the React root batches state updates
  \* ---- NSTTask: scheduling state
  pendingUpdates,       \* state updates called but not yet committed
  workers,              \* running processNextCapture invocations
  completing,           \* POST /api/nst-complete requests in flight
  onCompleteTimers,     \* pending setTimeout(() => onComplete(results), 2000)
  storeComplete,        \* isComplete in the redux store
  serverAnswers,        \* the server answers POST /api/nst-capture at all
  \* ---- NSTTask: history
  nextReq,              \* id of the next capture request
  enqueued,             \* requests in the order queueCapture received them
  uploads,              \* requests in the order POST /api/nst-capture was issued
  attempts,             \* request -> number of times its capture was started
  failed,               \* requests whose capture or upload raised
  completeCalls,        \* invocations of handleExperimentComplete
  onCompleteCalls       \* invocations of the onComplete prop

qvars == <<taskPhase, captureQueue, isProcessingCaptures, isComplete,
           mounted, batching, pendingUpdates, workers,
           completing, onCompleteTimers, storeComplete, serverAnswers,
           nextReq, enqueued, uploads, attempts, failed, completeCalls, onCompleteCalls>>

VARIABLES
  \* ---- DualCameraProvider: environment
  numDevices,           \* video input devices present
  saved,                \* localStorage nstplus_main_camera / nstplus_second_camera
  \* ---- DualCameraProvider: React state and refs
  cameras,              \* cameras.length (the list is device 1..cameras)
  camerasInitialized,   \* useState camerasInitialized
  selected,             \* selectedMainCamera / selectedSecondCamera (0 is '')
  streamActive,         \* mainStreamActive / secondStreamActive
  streamRef,            \* mainStreamRef / secondStreamRef (0 is null)
  \* ---- DualCameraProvider: streams, promises and timers
  streams,              \* every stream getUserMedia has returned
  acquiring,            \* getUserMedia calls in flight
  playing,              \* streams whose video.play() has not settled
  timers,               \* pending setTimeout(() => restartCamera(type), 1000)
  \* ---- DualCameraProvider: history
  acquireCount,         \* getUserMedia calls made by start*Camera
  restartAttempts,      \* role -> start*Camera calls made by restartCamera
  endedEvents,          \* role -> 'ended' events of the role's tracks
  captureError,         \* last message given to setCaptureError
  healthTicks,          \* ticks of the monitoring interval
  lastCapture,          \* result of the last captureBothCameras
  stored                \* capture metadata files written by POST /api/nst-capture

cvars == <<numDevices, saved, cameras, camerasInitialized, selected,
           streamActive, streamRef, streams, acquiring, playing, timers,
           acquireCount, restartAttempts, endedEvents, captureError,
           healthTicks, lastCapture, stored>>

VARIABLES
  \* ---- DualCameraProvider: lifecycle
  apiSupported,         \* navigator.mediaDevices.getUserMedia exists
  initPc,               \* where initializeCameraDevices is, or how it ended
  tempStream,           \* the temporary stream of initializeCameraDevices
  providerMounted,      \* DualCameraProvider is mounted
  \* ---- DualCameraProvider: capturePhoto calls in progress
  photo,                \* role -> state of the role's capturePhoto call
  \* ---- Participant document
  tasksCompleted,       \* participant.tasksCompleted
  participantStatus     \* participant.status

VARIABLES
  \* ---- backend: data/<participantId>/ of one participant
  metadataDir,          \* metadata/: file name -> parsed JSON content
  nstDir,               \* nst/: names of the image files written
  posted,               \* (trialNumber, digitIndex) of the uploads answered
  uploadCount           \* number of uploads answered

svars == <<metadataDir, nstDir, posted, uploadCount>>

VARIABLES
  \* ---- backend: the session of stateManager and its aggregator
  trials,               \* experimentState.trials: [number, effortLevel]
  responses,            \* responseState: the response events in order
  captures,             \* captureState: the capture references
  keyMapping,           \* session.keyMapping
  clock,                \* Date.now()
  results,              \* what the last getFullResults call returned
  checksums,            \* the generateChecksum calls made: input and output
  validated             \* the last validateResponse call: input and output

rvars == <<trials, responses, captures, keyMapping, clock, results, checksums,
           validated>>

VARIABLES
  \* ---- NSTTask: the running trial
  trialState,           \* experiment.trialState: trialNumber, digitIndex
  pendingNext,          \* pending setTimeout(() => dispatch(nextDigit()), 100)
  requested,            \* the capture requests handed to queueCapture
  \* ---- NSTTask: the practice
  practice,             \* taskPhase, trainingPhase, trainingTrials, ...
  mainStart,            \* startNSTExperiment calls: what the practice was then
  \* ---- ExperimentController
  controller,           \* currentPhase, currentTaskIndex, completedTasks
  taskOrder,            \* participant.taskOrder
  pendingComplete,      \* onComplete calls a task component still makes
  tasksRun,             \* the tasks whose component was mounted, in order
  \* ---- the other screens
  effort,               \* PhysicalEffortTask: state, trials, captures, completion
  neutral,              \* NeutralCapture: phase, captures, upload
  keyHandler            \* ResponseHandler: digit shown, responding, timers, queue

tvars == <<trialState, pendingNext, requested>>

pvars == <<practice, mainStart>>

evars == <<controller, taskOrder, pendingComplete, tasksRun>>

gvars == <<effort, neutral, keyHandler>>

\* the variables of the backend, the trial engine, the practice and the
\* controller
bbase == <<svars, rvars, tvars, pvars, evars>>

bvars == <<bbase, gvars>>

\* the variables of the capture queue, the camera provider and the participant
fbase == <<qvars, cvars, apiSupported, initPc, tempStream, providerMounted,
           photo, tasksCompleted, participantStatus>>

fvars == <<fbase, gvars>>

nvars == <<apiSupported, initPc, tempStream, providerMounted, photo,
           tasksCompleted, participantStatus, bvars>>

vars == <<qvars, cvars, nvars>>

Roles == {"main", "second"}

NoCapture == [main |-> "none", second |-> "none", cams |-> 0, sel |-> <<0, 0>>]

(***************************************************************************)
(* NSTTask: React state updates                                            *)
(***************************************************************************)
Upd(op, arg) == [op |-> op, arg |-> arg]

\* the state a render sees
Rendered == [q |-> captureQueue, p |-> isProcessingCaptures, c |-> isComplete,
             ph |-> taskPhase, qChanged |-> FALSE]

\* one state update applied to the rendered state
ApplyUpdate(s, u) ==
  CASE u.op = "append"   -> [s EXCEPT !.q = Append(s.q, u.arg), !.qChanged = TRUE]
    [] u.op = "slice"    -> [s EXCEPT !.q = SubSeq(s.q, 2, Len(s.q)), !.qChanged = TRUE]
    [] u.op = "proc"     -> [s EXCEPT !.p = (u.arg = 1)]
    [] u.op = "complete" -> [s EXCEPT !.c = TRUE]
    [] u.op = "phase"    -> [s EXCEPT !.ph = "complete"]

RECURSIVE ApplyUpdates(_, _)
ApplyUpdates(s, us) ==
  IF us = <<>> THEN s ELSE ApplyUpdates(ApplyUpdate(s, Head(us)), Tail(us))

\* processNextCapture: const captureData = captureQueue[0]
HeadOfQueue_Last(q) == q[Len(q)]
HeadOfQueue(q) == q[1]

\* effect guard: captureQueue.length > 0 && !isProcessingCaptures
ShouldProcess_IgnoreBusy(q, p) == Len(q) > 0
ShouldProcess(q, p) == Len(q) > 0 /\ ~p

\* waitForCaptures: captureQueue.length === 0 && !isProcessingCaptures
CapturesSettled(q, p) == Len(q) = 0 /\ ~p

\* processNextCapture, success path: setCaptureQueue(prev => prev.slice(1)),
\* then finally setIsProcessingCaptures(false)
OnSaved == <<Upd("slice", 0), Upd("proc", 0)>>

\* processNextCapture, catch path: the same removal, then the finally block
OnError_Keep == <<Upd("proc", 0)>>
OnError == <<Upd("slice", 0), Upd("proc", 0)>>

RemoveAt(s, i) == SubSeq(s, 1, i - 1) \o SubSeq(s, i + 1, Len(s))

(***************************************************************************)
(* NSTTask: initial state (startNSTExperiment has set taskPhase 'running') *)
(***************************************************************************)
QueueStart ==
  /\ taskPhase = "running"
  /\ captureQueue = <<>>
  /\ isProcessingCaptures = FALSE
  /\ isComplete = FALSE
  /\ mounted = TRUE
  /\ batching \in BOOLEAN
  /\ pendingUpdates = <<>>
  /\ workers = <<>>
  /\ completing = 0
  /\ onCompleteTimers = 0
  /\ storeComplete = FALSE
  /\ serverAnswers \in BOOLEAN
  /\ nextReq = 1
  /\ enqueued = <<>>
  /\ uploads = <<>>
  /\ attempts = [i \in 1..MaxReq |-> 0]
  /\ failed = {}
  /\ completeCalls = 0
  /\ onCompleteCalls = 0

\* the provider before its first effect, no device, nothing saved
CameraIdle ==
  /\ numDevices = 0
  /\ saved = [r \in Roles |-> 0]
  /\ cameras = 0
  /\ camerasInitialized = FALSE
  /\ selected = [r \in Roles |-> 0]
  /\ streamActive = [r \in Roles |-> FALSE]
  /\ streamRef = [r \in Roles |-> 0]
  /\ streams = <<>>
  /\ acquiring = <<>>
  /\ playing = <<>>
  /\ timers = <<>>
  /\ acquireCount = 0
  /\ restartAttempts = [r \in Roles |-> 0]
  /\ endedEvents = [r \in Roles |-> 0]
  /\ captureError = "none"
  /\ healthTicks = 0
  /\ lastCapture = NoCapture
  /\ stored = {}

\* initializeCameraDevices not running, no capture in progress
LifecycleIdle ==
  /\ apiSupported = TRUE
  /\ initPc = "idle"
  /\ tempStream = "none"
  /\ providerMounted = TRUE

PhotoIdle == photo = [r \in Roles |-> [pc |-> "idle"]]

\* a registered participant without completed tasks
ParticipantStart ==
  /\ tasksCompleted = <<>>
  /\ participantStatus = [status |-> "registered", started |-> FALSE, ended |-> FALSE]

\* the data directory of a participant nothing has been uploaded for
StoreEmpty ==
  /\ metadataDir = <<>>
  /\ nstDir = {}
  /\ posted = {}
  /\ uploadCount = 0

\* no session has been started with the backend
NoSession ==
  /\ trials = <<>>
  /\ responses = <<>>
  /\ captures = {}
  /\ keyMapping = [none |-> TRUE]
  /\ clock = 0
  /\ results = [called |-> FALSE]
  /\ checksums = <<>>
  /\ validated = [digit |-> -1]

\* no trial is running, NSTTask shows its instructions and the controller
\* shows the registration
TaskIdle ==
  /\ trialState = [trialNumber |-> 0, digitIndex |-> 0]
  /\ pendingNext = 0
  /\ requested = <<>>
  /\ practice = [taskPhase |-> "instructions"]
  /\ mainStart = [started |-> FALSE]
  /\ controller = [currentPhase |-> "registration", currentTaskIndex |-> 0,
                   completedTasks |-> <<>>,
                   experimentData |-> [nst |-> "none", effort |-> "none", null |-> "none"]]
  /\ taskOrder = <<>>
  /\ pendingComplete = <<>>
  /\ tasksRun = <<>>

\* PhysicalEffortTask, NeutralCapture and ResponseHandler as constructed
EffortIdle == effort = [taskPhase |-> "instructions"]

NeutralIdle == neutral = [phase |-> "instructions"]

HandlerIdle == keyHandler = [isResponding |-> FALSE]

ScreensIdle == EffortIdle /\ NeutralIdle /\ HandlerIdle

BackendStart == StoreEmpty /\ NoSession /\ TaskIdle /\ ScreensIdle

InitQueue ==
  /\ QueueStart /\ CameraIdle /\ LifecycleIdle /\ PhotoIdle /\ ParticipantStart
  /\ BackendStart

\* a root that does not batch renders inside the setState call, so no other
\* callback runs while an update is pending
Ready == batching \/ pendingUpdates = <<>>

\* number of pending updates one render takes: all of them in a batching
\* root, the oldest one otherwise
Batch(us) == IF batching THEN Len(us) ELSE 1

\* setState of an unmounted component does nothing
Push(us) == IF mounted THEN pendingUpdates \o us ELSE pendingUpdates

envUnchanged == UNCHANGED <<batching, serverAnswers, cvars, nvars>>

(***************************************************************************)
(* NSTTask: producer                                                       *)
(***************************************************************************)
\* handleResponse at a capture position: queueCapture appends the request.
\* handleResponse is handed to ResponseHandler, which is rendered while
\* taskPhase is 'running'; neither function looks at isComplete.
queueCapture ==
  /\ Ready
  /\ mounted
  /\ taskPhase = "running"
  /\ nextReq <= MaxReq
  /\ pendingUpdates' = Push(<<Upd("append", nextReq)>>)
  /\ enqueued' = Append(enqueued, nextReq)
  /\ nextReq' = nextReq + 1
  /\ UNCHANGED <<taskPhase, captureQueue, isProcessingCaptures, isComplete,
                 mounted, workers, completing, onCompleteTimers, storeComplete,
                 uploads, attempts, failed, completeCalls, onCompleteCalls>>
  /\ envUnchanged

\* the store sets experiment.isComplete (the trial engine ran out of trials)
completeExperiment ==
  /\ Ready
  /\ mounted
  /\ taskPhase = "running"
  /\ ~storeComplete
  /\ storeComplete' = TRUE
  /\ pendingUpdates' = Push(<<Upd("complete", 0)>>)
  /\ UNCHANGED <<taskPhase, captureQueue, isProcessingCaptures, isComplete,
                 mounted, workers, completing, onCompleteTimers, nextReq,
                 enqueued, uploads, attempts, failed, completeCalls,
                 onCompleteCalls>>
  /\ envUnchanged

(***************************************************************************)
(* NSTTask: commit of pending updates and the effects of the new render    *)
(***************************************************************************)
\* React applies pending updates in call order, renders, and runs the effects
\* whose dependencies changed:
\*   [captureQueue, isProcessingCaptures]       -> processNextCapture
\*   [isComplete, captureQueue.length, isProcessingCaptures] -> waitForCaptures
\* processNextCapture calls setIsProcessingCaptures(true), reads the head of
\* the rendered queue and awaits captureBothCameras. waitForCaptures calls
\* handleExperimentComplete or re-arms itself every 500 ms with the values of
\* its own render, so a timer that did not call the handler at once never does.
Commit ==
  /\ mounted
  /\ pendingUpdates # <<>>
  /\ LET k == Batch(pendingUpdates)
         s == ApplyUpdates(Rendered, SubSeq(pendingUpdates, 1, k))
         rest == SubSeq(pendingUpdates, k + 1, Len(pendingUpdates))
         procChanged == s.p # isProcessingCaptures
         start == (s.qChanged \/ procChanged) /\ ShouldProcess(s.q, s.p)
         item == HeadOfQueue(s.q)
         done == /\ (s.c # isComplete \/ Len(s.q) # Len(captureQueue) \/ procChanged)
                 /\ s.c
                 /\ CapturesSettled(s.q, s.p)
     IN /\ captureQueue' = s.q
        /\ isProcessingCaptures' = s.p
        /\ isComplete' = s.c
        /\ taskPhase' = s.ph
        /\ pendingUpdates' = IF start THEN Append(rest, Upd("proc", 1)) ELSE rest
        /\ workers' = IF start
                        THEN Append(workers, [item |-> item, pc |-> "capture"])
                        ELSE workers
        /\ attempts' = IF start THEN [attempts EXCEPT ![item] = @ + 1] ELSE attempts
        /\ completeCalls' = IF done THEN completeCalls + 1 ELSE completeCalls
        /\ completing' = IF done THEN completing + 1 ELSE completing
  /\ UNCHANGED <<mounted, onCompleteTimers, storeComplete, nextReq, enqueued,
                 uploads, failed, onCompleteCalls>>
  /\ envUnchanged

(***************************************************************************)
(* NSTTask: processNextCapture after its awaits                            *)
(***************************************************************************)
\* await captureBothCameras(...) resolved: saveNSTCapture issues the POST
\* (fetch is called without a timeout or an abort signal)
CaptureResolved ==
  /\ Ready
  /\ \E i \in 1..Len(workers) :
       /\ workers[i].pc = "capture"
       /\ workers' = [workers EXCEPT ![i].pc = "upload"]
       /\ uploads' = Append(uploads, workers[i].item)
  /\ UNCHANGED <<taskPhase, captureQueue, isProcessingCaptures, isComplete,
                 mounted, pendingUpdates, completing, onCompleteTimers,
                 storeComplete, nextReq, enqueued, attempts, failed,
                 completeCalls, onCompleteCalls>>
  /\ envUnchanged

\* await captureBothCameras(...) rejected: catch, then finally
CaptureRaised ==
  /\ Ready
  /\ \E i \in 1..Len(workers) :
       /\ workers[i].pc = "capture"
       /\ workers' = RemoveAt(workers, i)
       /\ failed' = failed \cup {workers[i].item}
  /\ pendingUpdates' = Push(OnError)
  /\ UNCHANGED <<taskPhase, captureQueue, isProcessingCaptures, isComplete,
                 mounted, completing, onCompleteTimers, storeComplete, nextReq,
                 enqueued, uploads, attempts, completeCalls, onCompleteCalls>>
  /\ envUnchanged

\* await saveNSTCapture(...) resolved (response.ok)
UploadSaved ==
  /\ Ready
  /\ serverAnswers
  /\ \E i \in 1..Len(workers) :
       /\ workers[i].pc = "upload"
       /\ workers' = RemoveAt(workers, i)
  /\ pendingUpdates' = Push(OnSaved)
  /\ UNCHANGED <<taskPhase, captureQueue, isProcessingCaptures, isComplete,
                 mounted, completing, onCompleteTimers, storeComplete, nextReq,
                 enqueued, uploads, attempts, failed, completeCalls,
                 onCompleteCalls>>
  /\ envUnchanged

\* await saveNSTCapture(...) rejected (!response.ok or a network error)
UploadRaised ==
  /\ Ready
  /\ serverAnswers
  /\ \E i \in 1..Len(workers) :
       /\ workers[i].pc = "upload"
       /\ workers' = RemoveAt(workers, i)
       /\ failed' = failed \cup {workers[i].item}
  /\ pendingUpdates' = Push(OnError)
  /\ UNCHANGED <<taskPhase, captureQueue, isProcessingCaptures, isComplete,
                 mounted, completing, onCompleteTimers, storeComplete, nextReq,
                 enqueued, uploads, attempts, completeCalls, onCompleteCalls>>
  /\ envUnchanged

(***************************************************************************)
(* NSTTask: handleExperimentComplete after its await                       *)
(***************************************************************************)
\* POST /api/nst-complete answered ok: setTaskPhase('complete') and the
\* 2 s timer that calls onComplete(results)
CompleteSaved ==
  /\ Ready
  /\ completing > 0
  /\ completing' = completing - 1
  /\ pendingUpdates' = Push(<<Upd("phase", 0)>>)
  /\ onCompleteTimers' = onCompleteTimers + 1
  /\ UNCHANGED <<taskPhase, captureQueue, isProcessingCaptures, isComplete,
                 mounted, workers, storeComplete, nextReq, enqueued, uploads,
                 attempts, failed, completeCalls, onCompleteCalls>>
  /\ envUnchanged

\* POST /api/nst-complete failed: onComplete({ error }) at once; the
\* controller leaves the task phase and NSTTask unmounts
CompleteRaised ==
  /\ Ready
  /\ completing > 0
  /\ completing' = completing - 1
  /\ onCompleteCalls' = onCompleteCalls + 1
  /\ mounted' = FALSE
  /\ UNCHANGED <<taskPhase, captureQueue, isProcessingCaptures, isComplete,
                 pendingUpdates, workers, onCompleteTimers, storeComplete,
                 nextReq, enqueued, uploads, attempts, failed, completeCalls>>
  /\ envUnchanged

\* the 2 s timer fires: onComplete(results), NSTTask unmounts
OnCompleteTimer ==
  /\ Ready
  /\ onCompleteTimers > 0
  /\ onCompleteTimers' = onCompleteTimers - 1
  /\ onCompleteCalls' = onCompleteCalls + 1
  /\ mounted' = FALSE
  /\ UNCHANGED <<taskPhase, captureQueue, isProcessingCaptures, isComplete,
                 pendingUpdates, workers, completing, storeComplete, nextReq,
                 enqueued, uploads, attempts, failed, completeCalls>>
  /\ envUnchanged

NextQueue ==
  \/ queueCapture
  \/ completeExperiment
  \/ Commit
  \/ CaptureResolved
  \/ CaptureRaised
  \/ UploadSaved
  \/ UploadRaised
  \/ CompleteSaved
  \/ CompleteRaised
  \/ OnCompleteTimer

SpecQueue == InitQueue /\ [][NextQueue]_vars

\* the event loop runs every callback that is ready: the render of pending
\* updates, the continuation of a settled await, a timer that is due
FairSpecQueue ==
  /\ SpecQueue
  /\ WF_vars(Commit)
  /\ WF_vars(CaptureResolved \/ CaptureRaised)
  /\ WF_vars(UploadSaved \/ UploadRaised)
  /\ WF_vars(CompleteSaved \/ CompleteRaised)
  /\ WF_vars(OnCompleteTimer)

(***************************************************************************)
(* DualCameraProvider: start*Camera                                        *)
(***************************************************************************)
\* setMainStreamActive(v) / setSecondStreamActive(v): a state setter of an
\* unmounted component does nothing
SetActive(r, v) ==
  IF providerMounted THEN [streamActive EXCEPT ![r] = v] ELSE streamActive

\* start*Camera, before its await: the stream the role's ref holds is stopped
\* (track.stop() ends the track without an 'ended' event) and the ref cleared
StopExisting(R) ==
  [i \in DOMAIN streams |->
     IF \E r \in R : streamRef[r] = i
       THEN [streams[i] EXCEPT !.live = FALSE]
       ELSE streams[i]]

RefsCleared(R) == [r \in Roles |-> IF r \in R THEN 0 ELSE streamRef[r]]

\* the getUserMedia calls of start*Camera(sel[r]) for the roles in R; "caught"
\* tells whether the caller awaits start*Camera inside restartCamera's try
Calls(R, sel, caught) ==
  (IF "main" \in R
     THEN <<[role |-> "main", dev |-> sel["main"], caught |-> caught]>>
     ELSE <<>>)
  \o (IF "second" \in R
        THEN <<[role |-> "second", dev |-> sel["second"], caught |-> caught]>>
        ELSE <<>>)

\* selection effects: if (selectedXCamera && camerasInitialized) startXCamera
ToStart(sel, changed) == {r \in changed : sel[r] # 0}

\* selection effects: localStorage.setItem of the selections that were started
Remembered(sel, R) == [r \in Roles |-> IF r \in R THEN sel[r] ELSE saved[r]]

\* auto-select effect: the first device for main, the second one for second,
\* when the role has neither a selection nor a saved preference
AutoSelected(n) ==
  [r \in Roles |->
     IF selected[r] = 0 /\ saved[r] = 0 /\ n > (IF r = "main" THEN 0 ELSE 1)
       THEN (IF r = "main" THEN 1 ELSE 2)
       ELSE selected[r]]

\* health check: stream.active && some track is live
Alive(i) == streams[i].live

\* the monitoring interval is created by the mount effect, so its callback
\* reads selectedMainCamera / selectedSecondCamera and mainStreamActive /
\* secondStreamActive of the first render
MonitorSelected(r) == 0
MonitorActive(r) == FALSE

\* how start*Camera ends when getUserMedia or play() rejects: its own catch
\* block returns null
StartOutcome(rejected) == IF rejected THEN "null" ELSE "stream"

\* restartCamera: the timer its catch block arms (5 s, start*Camera is then
\* called directly) when the awaited start*Camera threw
RetryAfterFailure_Loop(c, outcome) ==
  IF outcome # "stream"
    THEN <<[role |-> c.role, dev |-> c.dev, kind |-> "restart"]>>
    ELSE <<>>
RetryAfterFailure(c, outcome) ==
  IF outcome = "threw"
    THEN <<[role |-> c.role, dev |-> c.dev, kind |-> "retry"]>>
    ELSE <<>>

(***************************************************************************)
(* DualCameraProvider: initial state (mount effect done: enumeration       *)
(* requested, saved selections restored, monitoring interval running)      *)
(***************************************************************************)
CameraStart ==
  /\ numDevices \in 0..MaxDevices
  /\ saved \in [Roles -> 0..MaxDevices]
  /\ selected = saved
  /\ cameras = 0
  /\ camerasInitialized = FALSE
  /\ streamActive = [r \in Roles |-> FALSE]
  /\ streamRef = [r \in Roles |-> 0]
  /\ streams = <<>>
  /\ acquiring = <<>>
  /\ playing = <<>>
  /\ timers = <<>>
  /\ acquireCount = 0
  /\ restartAttempts = [r \in Roles |-> 0]
  /\ endedEvents = [r \in Roles |-> 0]
  /\ captureError = "none"
  /\ healthTicks = 0
  /\ lastCapture = NoCapture
  /\ stored = {}
  /\ apiSupported \in BOOLEAN
  /\ initPc = "start"
  /\ tempStream = "none"
  /\ providerMounted = TRUE

InitCamera ==
  /\ CameraStart
  /\ PhotoIdle
  /\ ParticipantStart
  /\ BackendStart
  /\ QueueStart /\ serverAnswers /\ batching

(***************************************************************************)
(* DualCameraProvider: enumeration and selection                           *)
(***************************************************************************)
\* initializeCameraDevices: every way out calls setCamerasInitialized(true)
InitializedAfter_OnlyListed(outcome) == outcome = "listed"
InitializedAfter(outcome) == outcome \in {"unsupported", "denied", "failed", "listed"}

\* initializeCameraDevices ends with n listed devices: setCameras,
\* setCamerasInitialized, setCaptureError when nothing is listed. The commit
\* runs the selection effects and the auto-select effect, whose selections
\* are committed and started in turn. Nothing is set once the provider is
\* unmounted.
Settle(n, outcome) ==
  IF providerMounted
    THEN LET init == InitializedAfter(outcome)
             sel == IF init THEN AutoSelected(n) ELSE selected
             R == IF init THEN ToStart(sel, Roles) ELSE {}
         IN /\ cameras' = n
            /\ camerasInitialized' = init
            /\ captureError' = IF n = 0 THEN "unavailable" ELSE captureError
            /\ selected' = sel
            /\ saved' = Remembered(sel, R)
            /\ streams' = StopExisting(R)
            /\ streamRef' = RefsCleared(R)
            /\ acquiring' = acquiring \o Calls(R, sel, FALSE)
            /\ acquireCount' = acquireCount + Cardinality(R)
    ELSE UNCHANGED <<cameras, camerasInitialized, captureError, selected, saved,
                     streams, streamRef, acquiring, acquireCount>>

initUnchanged ==
  UNCHANGED <<numDevices, streamActive, playing, timers, restartAttempts,
              endedEvents, healthTicks, lastCapture, stored, qvars,
              apiSupported, providerMounted, photo, tasksCompleted,
              participantStatus, bvars>>

\* initializeCameraDevices up to its first await: without the capture API it
\* ends at once with an empty list, else it asks for the temporary stream
initializeCameraDevices ==
  /\ initPc = "start"
  /\ IF apiSupported
       THEN /\ initPc' = "grant"
            /\ UNCHANGED <<cameras, camerasInitialized, captureError, selected,
                           saved, streams, streamRef, acquiring, acquireCount>>
       ELSE /\ initPc' = "unsupported"
            /\ Settle(0, "unsupported")
  /\ UNCHANGED tempStream
  /\ initUnchanged

\* getUserMedia({ video: true }) rejected (permission denied, no device): the
\* catch block ends with an empty list
GrantRejected ==
  /\ initPc = "grant"
  /\ initPc' = "denied"
  /\ Settle(0, "denied")
  /\ UNCHANGED tempStream
  /\ initUnchanged

\* getUserMedia({ video: true }) resolved with the temporary stream
GrantResolved ==
  /\ initPc = "grant"
  /\ numDevices > 0
  /\ initPc' = "enumerate"
  /\ tempStream' = "live"
  /\ UNCHANGED <<cameras, camerasInitialized, captureError, selected, saved,
                 streams, streamRef, acquiring, acquireCount>>
  /\ initUnchanged

\* enumerateDevices resolved: the temporary stream is stopped and the video
\* inputs are listed (none when the device has gone in the meantime)
EnumerateResolved ==
  /\ initPc = "enumerate"
  /\ initPc' = "listed"
  /\ tempStream' = "stopped"
  /\ \E n \in {0, numDevices} : Settle(n, "listed")
  /\ initUnchanged

\* enumerateDevices rejected: the catch block ends with an empty list; it
\* does not touch the temporary stream
EnumerateRejected ==
  /\ initPc = "enumerate"
  /\ initPc' = "failed"
  /\ Settle(0, "failed")
  /\ UNCHANGED tempStream
  /\ initUnchanged

\* setSelectedMainCamera / setSelectedSecondCamera from the settings screen
\* (its select lists the enumerated devices and '')
setSelectedCamera ==
  /\ providerMounted
  /\ camerasInitialized
  /\ \E r \in Roles, d \in 0..cameras :
       LET sel == [selected EXCEPT ![r] = d]
           R == ToStart(sel, {r})
       IN /\ d # selected[r]
          /\ acquireCount + Cardinality(R) <= MaxAcquire
          /\ selected' = sel
          /\ saved' = Remembered(sel, R)
          /\ streams' = StopExisting(R)
          /\ streamRef' = RefsCleared(R)
          /\ acquiring' = acquiring \o Calls(R, sel, FALSE)
          /\ acquireCount' = acquireCount + Cardinality(R)
  /\ UNCHANGED <<numDevices, cameras, camerasInitialized, streamActive, playing,
                 timers, restartAttempts, endedEvents, captureError, healthTicks,
                 lastCapture, stored>>
  /\ UNCHANGED <<qvars, nvars>>

\* 'Reset Cameras': setSelectedMainCamera(''), setSelectedSecondCamera('')
resetCameras ==
  /\ providerMounted
  /\ camerasInitialized
  /\ \E r \in Roles : selected[r] # 0
  /\ selected' = [r \in Roles |-> 0]
  /\ UNCHANGED <<numDevices, saved, cameras, camerasInitialized, streamActive,
                 streamRef, streams, acquiring, playing, timers, acquireCount,
                 restartAttempts, endedEvents, captureError, healthTicks,
                 lastCapture, stored>>
  /\ UNCHANGED <<qvars, nvars>>

(***************************************************************************)
(* DualCameraProvider: start*Camera after its awaits                       *)
(***************************************************************************)
\* getUserMedia resolved: the ref takes the stream, addStreamListeners, the
\* video element takes the stream and play() is awaited
AcquireResolved ==
  \E k \in 1..Len(acquiring) :
    LET c == acquiring[k]
        id == Len(streams) + 1
    IN /\ apiSupported
       /\ c.dev <= numDevices
       /\ acquiring' = RemoveAt(acquiring, k)
       /\ streams' = Append(streams, [role |-> c.role, dev |-> c.dev, live |-> TRUE])
       /\ streamRef' = [streamRef EXCEPT ![c.role] = id]
       /\ playing' = IF providerMounted
                       THEN Append(playing, [stream |-> id, role |-> c.role,
                                             dev |-> c.dev, caught |-> c.caught])
                       ELSE playing
       /\ UNCHANGED <<numDevices, saved, cameras, camerasInitialized, selected,
                      streamActive, timers, acquireCount, restartAttempts,
                      endedEvents, captureError, healthTicks, lastCapture, stored>>
       /\ UNCHANGED <<qvars, nvars>>

\* the catch block of start*Camera: the role is marked inactive, startMainCamera
\* also dispatches setCaptureError; then what the caller does with the outcome
StartFailed(c) ==
  /\ streamActive' = SetActive(c.role, FALSE)
  /\ captureError' = IF c.role = "main" THEN "main-failed" ELSE captureError
  /\ timers' = IF c.caught
                 THEN timers \o RetryAfterFailure(c, StartOutcome(TRUE))
                 ELSE timers

\* getUserMedia rejected
AcquireRejected ==
  \E k \in 1..Len(acquiring) :
    /\ acquiring' = RemoveAt(acquiring, k)
    /\ StartFailed(acquiring[k])
    /\ UNCHANGED <<numDevices, saved, cameras, camerasInitialized, selected,
                   streamRef, streams, playing, acquireCount, restartAttempts,
                   endedEvents, healthTicks, lastCapture, stored>>
    /\ UNCHANGED <<qvars, nvars>>

\* video.play() resolved: setMainStreamActive(true) / setSecondStreamActive(true)
PlayResolved ==
  \E k \in 1..Len(playing) :
    /\ playing' = RemoveAt(playing, k)
    /\ streamActive' = SetActive(playing[k].role, TRUE)
    /\ UNCHANGED <<numDevices, saved, cameras, camerasInitialized, selected,
                   streamRef, streams, acquiring, timers, acquireCount,
                   restartAttempts, endedEvents, captureError, healthTicks,
                   lastCapture, stored>>
    /\ UNCHANGED <<qvars, nvars>>

\* video.play() rejected (the stream stays in the ref)
PlayRejected ==
  \E k \in 1..Len(playing) :
    /\ playing' = RemoveAt(playing, k)
    /\ StartFailed(playing[k])
    /\ UNCHANGED <<numDevices, saved, cameras, camerasInitialized, selected,
                   streamRef, streams, acquiring, acquireCount, restartAttempts,
                   endedEvents, healthTicks, lastCapture, stored>>
    /\ UNCHANGED <<qvars, nvars>>

(***************************************************************************)
(* DualCameraProvider: stream events, restart, monitoring                  *)
(***************************************************************************)
\* the track of a stream ends (device unplugged, taken away by the system):
\* the 'ended' listener marks the role inactive and arms the 1 s restart timer
TrackEnded ==
  \E i \in DOMAIN streams :
    /\ streams[i].live
    /\ streams' = [streams EXCEPT ![i].live = FALSE]
    /\ streamActive' = SetActive(streams[i].role, FALSE)
    /\ timers' = Append(timers, [role |-> streams[i].role, dev |-> streams[i].dev,
                                 kind |-> "restart"])
    /\ endedEvents' = [endedEvents EXCEPT ![streams[i].role] = @ + 1]
    /\ UNCHANGED <<numDevices, saved, cameras, camerasInitialized, selected,
                   streamRef, acquiring, playing, acquireCount, restartAttempts,
                   captureError, healthTicks, lastCapture, stored>>
    /\ UNCHANGED <<qvars, nvars>>

\* a timer fires: restartCamera(type) of the render that attached the stream
\* (whose selection is the device the stream was started for), or the direct
\* start*Camera call of restartCamera's catch block
restartCamera ==
  \E k \in 1..Len(timers) :
    LET t == timers[k]
        R == {t.role}
        sel == [r \in Roles |-> t.dev]
    IN /\ acquireCount < MaxAcquire
       /\ timers' = RemoveAt(timers, k)
       /\ streams' = StopExisting(R)
       /\ streamRef' = RefsCleared(R)
       /\ acquiring' = acquiring \o Calls(R, sel, t.kind = "restart")
       /\ acquireCount' = acquireCount + 1
       /\ restartAttempts' = [restartAttempts EXCEPT ![t.role] = @ + 1]
       /\ UNCHANGED <<numDevices, saved, cameras, camerasInitialized, selected,
                      streamActive, playing, endedEvents, captureError,
                      healthTicks, lastCapture, stored>>
       /\ UNCHANGED <<qvars, nvars>>

\* roles the interval callback finds not alive while marked active
Unhealthy ==
  {r \in Roles : /\ MonitorSelected(r) # 0
                 /\ streamRef[r] # 0
                 /\ ~Alive(streamRef[r])
                 /\ MonitorActive(r)}

\* roles the interval callback finds alive while marked inactive
Recovered ==
  {r \in Roles : /\ MonitorSelected(r) # 0
                 /\ streamRef[r] # 0
                 /\ Alive(streamRef[r])
                 /\ ~MonitorActive(r)}

\* one tick of the 5 s interval of startStreamMonitoring: an unhealthy role is
\* marked inactive and restartCamera(type) is called at once
healthCheck ==
  LET U == Unhealthy
      sel == [r \in Roles |-> MonitorSelected(r)]
  IN /\ providerMounted
     /\ healthTicks < MaxTicks
     /\ acquireCount + Cardinality(U) <= MaxAcquire
     /\ healthTicks' = healthTicks + 1
     /\ streamActive' = [r \in Roles |->
                           IF r \in U THEN FALSE
                           ELSE IF r \in Recovered THEN TRUE
                           ELSE streamActive[r]]
     /\ streams' = StopExisting(U)
     /\ streamRef' = RefsCleared(U)
     /\ acquiring' = acquiring \o Calls(U, sel, TRUE)
     /\ acquireCount' = acquireCount + Cardinality(U)
     /\ restartAttempts' = [r \in Roles |->
                              IF r \in U THEN restartAttempts[r] + 1
                              ELSE restartAttempts[r]]
     /\ UNCHANGED <<numDevices, saved, cameras, camerasInitialized, selected,
                    playing, timers, endedEvents, captureError, lastCapture,
                    stored>>
     /\ UNCHANGED <<qvars, nvars>>

NextCamera ==
  \/ initializeCameraDevices
  \/ GrantRejected
  \/ GrantResolved
  \/ EnumerateResolved
  \/ EnumerateRejected
  \/ setSelectedCamera
  \/ resetCameras
  \/ AcquireResolved
  \/ AcquireRejected
  \/ PlayResolved
  \/ PlayRejected
  \/ TrackEnded
  \/ restartCamera
  \/ healthCheck

SpecCamera == InitCamera /\ [][NextCamera]_vars

(***************************************************************************)
(* DualCameraProvider: teardown                                            *)
(***************************************************************************)
\* the cleanup of the mount effect: stopStreamMonitoring clears the interval,
\* stopAllCameras stops the streams held by the two refs and clears the refs.
\* Pending restart timers are not cleared and pending getUserMedia / play()
\* calls go on.
unmountProvider ==
  /\ providerMounted
  /\ providerMounted' = FALSE
  /\ streams' = StopExisting(Roles)
  /\ streamRef' = RefsCleared(Roles)
  /\ streamActive' = [r \in Roles |-> FALSE]
  /\ UNCHANGED <<numDevices, saved, cameras, camerasInitialized, selected,
                 acquiring, playing, timers, acquireCount, restartAttempts,
                 endedEvents, captureError, healthTicks, lastCapture, stored>>
  /\ UNCHANGED <<qvars, apiSupported, initPc, tempStream, photo, tasksCompleted,
                 participantStatus, bvars>>

NextTeardown ==
  \/ NextCamera
  \/ unmountProvider

SpecTeardown == InitCamera /\ [][NextTeardown]_vars

(***************************************************************************)
(* DualCameraProvider: capture, and what the server stores                 *)
(***************************************************************************)
\* capturePhoto: the video and canvas elements are always rendered, so the
\* frame is drawn and encoded ("real"), or encoding yields no blob ("null")
PhotoKinds == {"real", "null"}

\* captureBothCameras with the outcomes m, s of the two capturePhoto calls
\* (createMockPhoto produces the "synthetic" image)
CaptureBoth(n, sel, m, s) ==
  IF n = 0 THEN [main |-> "synthetic", second |-> "synthetic"]
  ELSE IF n = 1 /\ sel["main"] # 0 /\ sel["second"] = 0
    THEN [main |-> m, second |-> "synthetic"]
  ELSE [main |-> m, second |-> s]

\* saveNSTCapture: the multipart fields, mainPhoto / equipmentPhoto only for a
\* non-null blob; the blob of a synthetic image is a plain image/jpeg blob
FormFields(photos) ==
  {"participantId", "trialNumber", "digitIndex", "digit", "response",
   "responseTime", "timestamp", "taskType"}
  \cup (IF photos.main # "null" THEN {"mainPhoto"} ELSE {})
  \cup (IF photos.second # "null" THEN {"equipmentPhoto"} ELSE {})

\* POST /api/nst-capture: the keys of the metadata file capture-t*-d*.json
StoredFields(form) ==
  {"trialNumber", "digitIndex", "digit", "response", "responseTime",
   "timestamp", "files"}

\* POST /api/nst-capture: the keys of captureData.files
StoredFiles(form) ==
  (IF "mainPhoto" \in form THEN {"main"} ELSE {})
  \cup (IF "equipmentPhoto" \in form THEN {"equipment"} ELSE {})

\* captureBothCameras is called and settles
captureBothCameras ==
  /\ \E m \in PhotoKinds, s \in PhotoKinds :
       LET photos == CaptureBoth(cameras, selected, m, s)
       IN lastCapture' = [main |-> photos.main, second |-> photos.second,
                          cams |-> cameras,
                          sel |-> <<selected["main"], selected["second"]>>]
  /\ UNCHANGED <<numDevices, saved, cameras, camerasInitialized, selected,
                 streamActive, streamRef, streams, acquiring, playing, timers,
                 acquireCount, restartAttempts, endedEvents, captureError,
                 healthTicks, stored>>
  /\ UNCHANGED <<qvars, nvars>>

\* saveNSTCapture posts the photos and the server writes the files and the
\* metadata; "photos" records what the images really were
saveNSTCapture ==
  /\ lastCapture # NoCapture
  /\ Cardinality(stored) < MaxStored
  /\ LET photos == [main |-> lastCapture.main, second |-> lastCapture.second]
         form == FormFields(photos)
     IN stored' = stored \cup {[fields |-> StoredFields(form),
                                files |-> StoredFiles(form),
                                photos |-> photos]}
  /\ UNCHANGED <<numDevices, saved, cameras, camerasInitialized, selected,
                 streamActive, streamRef, streams, acquiring, playing, timers,
                 acquireCount, restartAttempts, endedEvents, captureError,
                 healthTicks, lastCapture>>
  /\ UNCHANGED <<qvars, nvars>>

(***************************************************************************)
(* DualCameraProvider: capturePhoto step by step                           *)
(***************************************************************************)
\* what capturePhoto returns: the blob, or null when an element is missing,
\* when drawing throws (its catch block) or when toBlob yields no blob
PhotoResult_Rethrow(outcome) ==
  CASE outcome = "ok" -> "real"
    [] outcome = "drawError" -> "raised"
    [] OTHER -> "null"
PhotoResult(outcome) == IF outcome = "ok" THEN "real" ELSE "null"

\* canvas.width / height: video.videoWidth || 640, video.videoHeight || 480
CanvasSize(dims) == IF dims THEN "video" ELSE "default"

\* after the 500 ms wait for dimensions capturePhoto goes on to draw, with
\* or without dimensions
AfterDimsWait_Block(dims) == IF dims THEN "draw" ELSE "waitDims"
AfterDimsWait(dims) == "draw"

\* capturePhoto up to its first wait, for a role whose photo is taken from
\* the video element: refs tells whether both elements exist, ready whether
\* video.readyState >= 2, dims whether the video reports dimensions
PhotoCall(refs, ready, dims) ==
  IF ~refs THEN [pc |-> "done", dims |-> FALSE, outcome |-> "noRefs"]
  ELSE IF ~ready THEN [pc |-> "waitReady", dims |-> FALSE, outcome |-> "none"]
  ELSE IF ~dims THEN [pc |-> "waitDims", dims |-> FALSE, outcome |-> "none"]
  ELSE [pc |-> "draw", dims |-> TRUE, outcome |-> "none"]

\* createMockPhoto settles with its image
MockCall == [pc |-> "done", dims |-> FALSE, outcome |-> "mock"]

InProgress(r) == photo[r].pc \in {"waitReady", "waitDims", "draw"}

photoUnchanged ==
  UNCHANGED <<numDevices, saved, cameras, camerasInitialized, selected,
              streamActive, streamRef, streams, acquiring, playing, timers,
              acquireCount, restartAttempts, endedEvents, captureError,
              healthTicks, stored, qvars, apiSupported, initPc, tempStream,
              providerMounted, tasksCompleted, participantStatus, bvars>>

\* captureBothCameras is called: the branch is chosen by the device count and
\* the selections, the capturePhoto / createMockPhoto calls start
beginCapture ==
  /\ lastCapture = NoCapture
  /\ \A r \in Roles : photo[r].pc = "idle"
  /\ \E refs \in [Roles -> BOOLEAN], ready \in [Roles -> BOOLEAN],
        dims \in [Roles -> BOOLEAN] :
       LET kinds == CaptureBoth(cameras, selected, "pending", "pending")
           call(r, k) == IF k = "synthetic" THEN MockCall
                         ELSE PhotoCall(refs[r], ready[r], dims[r])
           started == [r \in Roles |->
                         call(r, IF r = "main" THEN kinds.main ELSE kinds.second)]
           result(r) == IF started[r].outcome = "mock" THEN "synthetic"
                        ELSE IF started[r].pc = "done"
                          THEN PhotoResult(started[r].outcome)
                        ELSE "pending"
       IN /\ photo' = started
          /\ lastCapture' = [main |-> result("main"), second |-> result("second"),
                             cams |-> cameras,
                             sel |-> <<selected["main"], selected["second"]>>]
  /\ photoUnchanged

\* 'loadeddata' / 'loadedmetadata' fires while capturePhoto waits
VideoLoaded(r) ==
  /\ photo[r].pc = "waitReady"
  /\ \E d \in BOOLEAN :
       photo' = [photo EXCEPT ![r].dims = d,
                              ![r].pc = IF d THEN "draw" ELSE "waitDims"]
  /\ UNCHANGED lastCapture
  /\ photoUnchanged

\* the 3 s timer of the wait fires first: 'proceeding anyway'
LoadTimeout(r) ==
  /\ photo[r].pc = "waitReady"
  /\ photo' = [photo EXCEPT ![r].pc = "waitDims"]
  /\ UNCHANGED lastCapture
  /\ photoUnchanged

\* the video reports its dimensions during the 500 ms wait
VideoDimensions(r) ==
  /\ photo[r].pc = "waitDims"
  /\ ~photo[r].dims
  /\ photo' = [photo EXCEPT ![r].dims = TRUE]
  /\ UNCHANGED lastCapture
  /\ photoUnchanged

\* the 500 ms wait for dimensions is over
DimsTimeout(r) ==
  /\ photo[r].pc = "waitDims"
  /\ photo' = [photo EXCEPT ![r].pc = AfterDimsWait(photo[r].dims)]
  /\ UNCHANGED lastCapture
  /\ photoUnchanged

\* the canvas is sized, the frame drawn and encoded; capturePhoto settles
DrawAndEncode(r) ==
  /\ photo[r].pc = "draw"
  /\ \E o \in {"ok", "drawError", "noBlob"} :
       /\ photo' = [photo EXCEPT ![r].pc = "done", ![r].outcome = o]
       /\ lastCapture' = IF r = "main"
                           THEN [lastCapture EXCEPT !.main = PhotoResult(o)]
                           ELSE [lastCapture EXCEPT !.second = PhotoResult(o)]
  /\ photoUnchanged

NextPhoto ==
  \/ initializeCameraDevices
  \/ GrantRejected
  \/ GrantResolved
  \/ EnumerateResolved
  \/ EnumerateRejected
  \/ beginCapture
  \/ \E r \in Roles : VideoLoaded(r)
  \/ \E r \in Roles : LoadTimeout(r)
  \/ \E r \in Roles : VideoDimensions(r)
  \/ \E r \in Roles : DimsTimeout(r)
  \/ \E r \in Roles : DrawAndEncode(r)

SpecPhoto == InitCamera /\ [][NextPhoto]_vars

\* timers fire and the drawing code runs; the events of the video element
\* need not arrive
FairSpecPhoto ==
  /\ SpecPhoto
  /\ \A r \in Roles : WF_vars(LoadTimeout(r))
  /\ \A r \in Roles : WF_vars(DimsTimeout(r))
  /\ \A r \in Roles : WF_vars(DrawAndEncode(r))

\* capturePhoto next to the stream events: tracks end and streams are
\* restarted while a capture waits for its video element
NextRestartCapture ==
  \/ NextPhoto
  \/ AcquireResolved
  \/ AcquireRejected
  \/ PlayResolved
  \/ PlayRejected
  \/ TrackEnded
  \/ restartCamera

SpecRestartCapture == InitCamera /\ [][NextRestartCapture]_vars

\* the capture path on its own: the selections change while the getUserMedia
\* calls of the selection effects are still pending
NextCapture ==
  \/ initializeCameraDevices
  \/ GrantRejected
  \/ GrantResolved
  \/ EnumerateResolved
  \/ EnumerateRejected
  \/ setSelectedCamera
  \/ resetCameras
  \/ captureBothCameras
  \/ saveNSTCapture

SpecCapture == InitCamera /\ [][NextCapture]_vars

(***************************************************************************)
(* Participant model: addCompletedTask                                     *)
(***************************************************************************)
\* enum of tasksCompleted.taskType
TaskTypes == {"neutral-capture", "nst", "physical-effort"}

\* addCompletedTask: this.tasksCompleted.push({ taskType, metadata, ... })
Completed(tasks, taskType, metadata) ==
  Append(tasks, [taskType |-> taskType, metadata |-> metadata])

\* addCompletedTask: the overall status after the push
StatusAfter(tasks, st) ==
  IF Len(tasks) >= 3
    THEN [st EXCEPT !.status = "completed", !.ended = TRUE]
  ELSE IF Len(tasks) > 0
    THEN [st EXCEPT !.status = "in-progress", !.started = TRUE]
  ELSE st

\* participant.addCompletedTask(taskType, metadata), as called by POST
\* /api/nst-complete, /api/physical-effort-complete and /api/neutral-capture
addCompletedTask ==
  /\ Len(tasksCompleted) < MaxTasks
  /\ \E t \in TaskTypes, m \in 1..MaxMeta :
       LET tasks == Completed(tasksCompleted, t, m)
       IN /\ tasksCompleted' = tasks
          /\ participantStatus' = StatusAfter(tasks, participantStatus)
  /\ UNCHANGED <<qvars, cvars, apiSupported, initPc, tempStream, providerMounted,
                 photo, bvars>>

InitParticipant ==
  /\ ParticipantStart
  /\ BackendStart
  /\ QueueStart /\ serverAnswers /\ batching
  /\ CameraIdle
  /\ LifecycleIdle
  /\ PhotoIdle

NextParticipant == addCompletedTask

SpecParticipant == InitParticipant /\ [][NextParticipant]_vars

(***************************************************************************)
(* Backend: POST /api/nst-capture                                          *)
(* Text is a sequence of characters.                                       *)
(***************************************************************************)
DigitChars == <<"0", "1", "2", "3", "4", "5", "6", "7", "8", "9">>

\* String(n) of a non-negative integer, as FormData.append converts it
RECURSIVE NumberToString(_)
NumberToString(n) ==
  IF n < 10 THEN <<DigitChars[n + 1]>>
  ELSE NumberToString(n \div 10) \o <<DigitChars[(n % 10) + 1]>>

DigitValue(c) == CHOOSE d \in 0..9 : DigitChars[d + 1] = c

IsDigitChar(c) == \E d \in 0..9 : DigitChars[d + 1] = c

\* the longest prefix of digits of a text
RECURSIVE LeadingDigits(_)
LeadingDigits(t) ==
  IF t = <<>> \/ ~IsDigitChar(Head(t)) THEN <<>>
  ELSE <<Head(t)>> \o LeadingDigits(Tail(t))

RECURSIVE DigitsValue(_)
DigitsValue(t) ==
  IF t = <<>> THEN 0
  ELSE 10 * DigitsValue(SubSeq(t, 1, Len(t) - 1)) + DigitValue(t[Len(t)])

\* parseInt of a text without sign or blanks; "NaN" when no digit leads
ParseInt(t) ==
  IF LeadingDigits(t) = <<>> THEN "NaN" ELSE DigitsValue(LeadingDigits(t))

\* the digit positions the trial engine uploads a capture for
\* (captureConfig: firstCapture 0, interval 3, 15 digits)
UploadPositions == {0, 3, 6, 9, 12}

ResponseKeys == {"f", "j"}

\* the file names of POST /api/nst-capture, from the raw form fields
CaptureFileName_TrialOnly(kind, trialNumber, digitIndex) ==
  kind \o <<"-", "t">> \o trialNumber
CaptureFileName(kind, trialNumber, digitIndex) ==
  kind \o <<"-", "t">> \o trialNumber \o <<"-", "d">> \o digitIndex

\* captureData as built from req.body and req.files
CaptureData(body, uploadedFiles) ==
  [trialNumber |-> ParseInt(body.trialNumber),
   digitIndex |-> ParseInt(body.digitIndex),
   response |-> body.response,
   files |-> (IF "mainPhoto" \in uploadedFiles THEN {"main"} ELSE {})
             \cup (IF "equipmentPhoto" \in uploadedFiles THEN {"equipment"} ELSE {})]

\* fs.writeFile: creates the file or replaces its content
WriteFile(dir, name, data) ==
  [n \in (DOMAIN dir) \cup {name} |-> IF n = name THEN data ELSE dir[n]]

\* saveNSTCapture of the browser posts a capture with both photos and the
\* route answers
postNstCapture ==
  /\ uploadCount < MaxUploads
  /\ \E t \in 1..MaxTrialNo, d \in UploadPositions, r \in ResponseKeys :
       LET photos == {"mainPhoto", "equipmentPhoto"}
           body == [trialNumber |-> NumberToString(t),
                    digitIndex |-> NumberToString(d),
                    response |-> r]
           main == CaptureFileName(<<"n", "s", "t", "-", "m">>,
                                   body.trialNumber, body.digitIndex)
           equipment == CaptureFileName(<<"n", "s", "t", "-", "e">>,
                                        body.trialNumber, body.digitIndex)
           meta == CaptureFileName(<<"c">>, body.trialNumber, body.digitIndex)
       IN /\ nstDir' = nstDir
                 \cup (IF "mainPhoto" \in photos THEN {main} ELSE {})
                 \cup (IF "equipmentPhoto" \in photos THEN {equipment} ELSE {})
          /\ metadataDir' = WriteFile(metadataDir, meta, CaptureData(body, photos))
          /\ posted' = posted \cup {<<t, d>>}
          /\ uploadCount' = uploadCount + 1
  /\ UNCHANGED <<fvars, rvars, tvars, pvars, evars>>

InitStore ==
  /\ BackendStart
  /\ ParticipantStart
  /\ QueueStart /\ serverAnswers /\ batching
  /\ CameraIdle
  /\ LifecycleIdle
  /\ PhotoIdle

NextStore == postNstCapture

SpecStore == InitStore /\ [][NextStore]_vars

(***************************************************************************)
(* Backend: the session state vector and ResultsAggregator                 *)
(***************************************************************************)
\* the digits trial numbers are drawn from: one odd, one even
TrialDigits == {"3", "4"}

\* effort level of the n-th trial (trialConfig)
EffortLevels == <<6, 4, 2>>

KeyMappings == {[odd |-> "f", even |-> "j"], [odd |-> "j", even |-> "f"]}

\* a session whose key mapping was never set
NoMapping == [none |-> TRUE]

\* a session right after POST /api/start: its trials, no response yet
SessionStart ==
  /\ \E n \in 1..MaxTrials :
       trials \in [1..n -> [number : [1..TrialLen -> TrialDigits],
                            effortLevel : {6, 4, 2}]]
       /\ \A i \in 1..n : trials[i].effortLevel = EffortLevels[i]
  /\ keyMapping \in KeyMappings
  /\ responses = <<>>
  /\ captures = {}
  /\ clock = 0
  /\ results = [called |-> FALSE]
  /\ checksums = <<>>
  /\ validated = [digit |-> -1]

\* (trial, position) pairs in the order the trial engine shows the digits
Before(a, b) == a[1] < b[1] \/ (a[1] = b[1] /\ a[2] < b[2])

LastAnswered ==
  IF responses = <<>> THEN <<0, 0>>
  ELSE <<responses[Len(responses)].trial, responses[Len(responses)].position>>

\* appendResponse: the response to the digit at position p of trial t is
\* recorded; digits nobody answered in time leave no event
appendResponse ==
  /\ \E t \in DOMAIN trials, p \in 1..TrialLen, k \in ResponseKeys :
       /\ Before(LastAnswered, <<t, p>>)
       /\ responses' = Append(responses,
            [trial |-> t, position |-> p, key |-> k,
             responseType |-> IF k = keyMapping.odd THEN "odd" ELSE "even",
             timestamp |-> Len(responses) + 1])
  /\ UNCHANGED <<trials, captures, keyMapping, clock, results, checksums, validated>>
  /\ UNCHANGED <<fvars, svars, tvars, pvars, evars>>

\* appendCapture: a capture of the first digit of trial t is linked
appendCapture ==
  /\ Cardinality(captures) < MaxCaptures
  /\ \E t \in DOMAIN trials :
       /\ \A c \in captures : c.trialNumber # t
       /\ captures' = captures \cup {[trialNumber |-> t, digitIndex |-> 0]}
  /\ UNCHANGED <<trials, responses, keyMapping, clock, results, checksums, validated>>
  /\ UNCHANGED <<fvars, svars, tvars, pvars, evars>>

\* getFullStateVector
StateVector ==
  [experimentState |-> [trials |-> trials],
   responseState |-> responses,
   captureState |-> captures,
   metadata |-> [keyMapping |-> keyMapping]]

\* responseState[index]?.field || null, index counted from 0
FieldAt(responseState, index, field) ==
  IF index + 1 \in DOMAIN responseState THEN responseState[index + 1][field]
  ELSE "null"

IsOddDigit(digit) == DigitValue(digit) % 2 # 0

\* validateResponse(digit, key, keyMapping)
validateResponse_Swapped(digit, key, mapping) ==
  IF key = "null" \/ mapping = NoMapping THEN FALSE
  ELSE \/ IsOddDigit(digit) /\ key = mapping.even
       \/ ~IsOddDigit(digit) /\ key = mapping.odd
validateResponse(digit, key, mapping) ==
  IF key = "null" \/ mapping = NoMapping THEN FALSE
  ELSE \/ IsOddDigit(digit) /\ key = mapping.odd
       \/ ~IsOddDigit(digit) /\ key = mapping.even

\* a boolean as a value of the results, where null is a value too
JsonBoolean(b) == IF b THEN "true" ELSE "false"

\* the entries of one trial: trial.number.split('').map((digit, pos) => ...)
TrialResponses(trial, index, responseState, mapping) ==
  [pos \in 1..Len(trial.number) |->
     [digit |-> trial.number[pos],
      response |-> FieldAt(responseState, index, "key"),
      responseType |-> FieldAt(responseState, index, "responseType"),
      isCorrect |-> JsonBoolean(validateResponse(trial.number[pos],
                        FieldAt(responseState, index, "key"), mapping)),
      timestamp |-> FieldAt(responseState, index, "timestamp"),
      position |-> pos]]

\* processTrialDetails: responseState[index]?.filter(...) is evaluated for
\* every trial; on a response event, which has no filter method, it raises
processTrialDetails(stateVector, mapping) ==
  LET trialList == stateVector.experimentState.trials
      responseState == stateVector.responseState
  IN IF \E i \in DOMAIN trialList : i \in DOMAIN responseState
     THEN [raised |-> "TypeError"]
     ELSE [raised |-> "no",
           details |->
             [i \in DOMAIN trialList |->
                [trialNumber |-> i,
                 sequence |-> trialList[i].number,
                 responses |-> TrialResponses(trialList[i], i - 1, responseState, mapping),
                 effortLevel |-> trialList[i].effortLevel,
                 totalCorrect |-> 0]]]

\* processCaptureData
processCaptureData(stateVector) ==
  {[trialNumber |-> c.trialNumber, digitIndex |-> c.digitIndex] :
     c \in stateVector.captureState}

\* calculateSessionMetrics at wall-clock time now
calculateSessionMetrics(now) ==
  [totalTime |-> now, totalTrials |-> Len(trials), responseCount |-> Len(responses)]

\* generateChecksum: SHA-256 of JSON.stringify of the three members; the
\* digest is taken to be free of collisions, so it is the text it is made of
generateChecksum_WithCaptures(stateVector, now) ==
  <<stateVector.experimentState, stateVector.responseState, stateVector.metadata,
    stateVector.captureState>>
generateChecksum(stateVector, now) ==
  <<stateVector.experimentState, stateVector.responseState, stateVector.metadata>>

\* getFullResults(sessionId) is called and returns, or raises
getFullResults ==
  /\ clock < MaxCalls
  /\ clock' = clock + 1
  /\ LET details == processTrialDetails(StateVector, keyMapping)
     IN results' =
          IF details.raised # "no"
          THEN [called |-> TRUE, raised |-> TRUE, of |-> responses]
          ELSE [called |-> TRUE, raised |-> FALSE, of |-> responses,
                sessionMetrics |-> calculateSessionMetrics(clock'),
                trialDetails |-> details.details,
                captureData |-> processCaptureData(StateVector),
                keyMapping |-> keyMapping,
                validationHash |-> generateChecksum(StateVector, clock')]
  /\ UNCHANGED <<trials, responses, captures, keyMapping, checksums, validated>>
  /\ UNCHANGED <<fvars, svars, tvars, pvars, evars>>

\* generateChecksum(stateVector) is called on the current state vector
callGenerateChecksum ==
  /\ clock < MaxCalls
  /\ clock' = clock + 1
  /\ checksums' = Append(checksums,
       [responses |-> responses, captures |-> captures, at |-> clock',
        checksum |-> generateChecksum(StateVector, clock')])
  /\ UNCHANGED <<trials, responses, captures, keyMapping, results, validated>>
  /\ UNCHANGED <<fvars, svars, tvars, pvars, evars>>

\* validateResponse is called on a digit, a key (or none) and a mapping
callValidateResponse ==
  /\ \E d \in 0..9, k \in ResponseKeys \cup {"null"}, m \in KeyMappings \cup {NoMapping} :
       validated' = [digit |-> d, key |-> k, mapping |-> m,
                     result |-> validateResponse(DigitChars[d + 1], k, m)]
  /\ UNCHANGED <<trials, responses, captures, keyMapping, clock, results, checksums>>
  /\ UNCHANGED <<fvars, svars, tvars, pvars, evars>>

InitResults ==
  /\ ScreensIdle
  /\ SessionStart
  /\ StoreEmpty
  /\ TaskIdle
  /\ ParticipantStart
  /\ QueueStart /\ serverAnswers /\ batching
  /\ CameraIdle
  /\ LifecycleIdle
  /\ PhotoIdle

NextResults == appendResponse \/ appendCapture \/ getFullResults

SpecResults == InitResults /\ [][NextResults]_vars

NextChecksum == appendResponse \/ appendCapture \/ callGenerateChecksum

SpecChecksum == InitResults /\ [][NextChecksum]_vars

NextValidate == callValidateResponse

SpecValidate == InitResults /\ [][NextValidate]_vars

(***************************************************************************)
(* NSTTask: responses and the capture policy during a trial                *)
(***************************************************************************)
\* the trial engine shows the first digit of a trial
TrialStart ==
  /\ trialState \in [trialNumber : 1..MaxTrialNo, digitIndex : {0}]
  /\ pendingNext = 0
  /\ requested = <<>>

\* isActive of ResponseHandler: isRunning && currentDigit !== null
DigitShown == trialState.trialNumber >= 1 /\ trialState.digitIndex < NumDigits

\* checkShouldCapture
checkShouldCapture(ts) ==
  /\ ts.digitIndex >= FirstCapture
  /\ (ts.digitIndex - FirstCapture) % CaptureInterval = 0

\* nextDigit of the store: the next digit of the trial, or the rest after
\* the last one
NextDigit(ts) ==
  IF ts.digitIndex < NumDigits THEN [ts EXCEPT !.digitIndex = @ + 1] ELSE ts

\* handleResponse: the onResponse prop is called with a response; queueCapture
\* if the policy says so, and nextDigit 100 ms later
handleResponse ==
  /\ DigitShown
  /\ pendingNext < MaxPending
  /\ requested' = IF checkShouldCapture(trialState)
                  THEN Append(requested, [trialNumber |-> trialState.trialNumber,
                                          digitIndex |-> trialState.digitIndex])
                  ELSE requested
  /\ pendingNext' = pendingNext + 1
  /\ UNCHANGED <<trialState, fvars, svars, rvars, pvars, evars>>

\* the 100 ms timer of handleResponse fires: dispatch(nextDigit())
nextDigitTimer ==
  /\ pendingNext > 0
  /\ pendingNext' = pendingNext - 1
  /\ trialState' = NextDigit(trialState)
  /\ UNCHANGED <<requested, fvars, svars, rvars, pvars, evars>>

\* the digit's display time is over and nobody has called onResponse: the
\* trial engine goes on to the next digit
digitElapsed ==
  /\ DigitShown
  /\ trialState' = NextDigit(trialState)
  /\ UNCHANGED <<pendingNext, requested, fvars, svars, rvars, pvars, evars>>

InitTrial ==
  /\ ScreensIdle
  /\ TrialStart
  /\ practice = [taskPhase |-> "instructions"]
  /\ mainStart = [started |-> FALSE]
  /\ controller = [currentPhase |-> "registration", currentTaskIndex |-> 0,
                   completedTasks |-> <<>>,
                   experimentData |-> [nst |-> "none", effort |-> "none", null |-> "none"]]
  /\ taskOrder = <<>> /\ pendingComplete = <<>> /\ tasksRun = <<>>
  /\ StoreEmpty /\ NoSession
  /\ ParticipantStart
  /\ QueueStart /\ serverAnswers /\ batching
  /\ CameraIdle /\ LifecycleIdle /\ PhotoIdle

NextTrial == handleResponse \/ nextDigitTimer \/ digitElapsed

SpecTrial == InitTrial /\ [][NextTrial]_vars

(***************************************************************************)
(* NSTTask: the practice before the main task                              *)
(***************************************************************************)
\* NSTTask is mounted and shows its instructions; the key mapping is set
PracticeStart ==
  /\ \E m \in KeyMappings :
       practice = [taskPhase |-> "instructions", trainingPhase |-> "ready",
                   trainingTrials |-> <<>>, currentTrainingTrial |-> 0,
                   trainingAccuracy |-> [correct |-> 0, total |-> 1],
                   keyMapping |-> m, retried |-> FALSE]
  /\ mainStart = [started |-> FALSE]

\* trainingAccuracy >= 80, for the accuracy (correct / total) * 100
AccuracyReached(accuracy) ==
  accuracy.correct * 100 >= RequiredAccuracy * accuracy.total

\* the render of NSTTask offers the button "Start Main Task"
CanStartMain_AnyAccuracy(p) ==
  p.taskPhase = "training" /\ p.trainingPhase = "complete"
CanStartMain(p) ==
  /\ p.taskPhase = "training" /\ p.trainingPhase = "complete"
  /\ AccuracyReached(p.trainingAccuracy)

\* the render of NSTTask offers "Start Practice" or "Retry Practice"
CanStartTraining(p) ==
  \/ p.taskPhase = "instructions"
  \/ /\ p.taskPhase = "training" /\ p.trainingPhase = "complete"
     /\ ~AccuracyReached(p.trainingAccuracy)

\* startTraining up to its await
startTraining ==
  /\ CanStartTraining(practice)
  /\ practice' = [practice EXCEPT !.taskPhase = "training", !.trainingPhase = "ready",
                                  !.retried = (practice.taskPhase = "training")]
  /\ UNCHANGED <<mainStart, fvars, svars, rvars, tvars, evars>>

\* generateTrainingTrials settles, with the digits of the backend or with the
\* fallback digits, which are one fewer; startTraining goes on to 'active'
trainingTrialsGenerated ==
  /\ practice.taskPhase = "training" /\ practice.trainingPhase = "ready"
  /\ \E n \in {PracticeLen, PracticeLen - 1} :
       practice' = [practice EXCEPT !.trainingTrials = [i \in 1..n |-> "null"],
                                    !.currentTrainingTrial = 0,
                                    !.trainingPhase = "active"]
  /\ UNCHANGED <<mainStart, fvars, svars, rvars, tvars, evars>>

\* handleTrainingResponse for a key of the mapping, on a digit of some parity
handleTrainingResponse ==
  /\ practice.taskPhase = "training" /\ practice.trainingPhase = "active"
  /\ practice.currentTrainingTrial + 1 \in DOMAIN practice.trainingTrials
  /\ \E correctAnswer \in {"odd", "even"}, key \in ResponseKeys :
       LET response == IF key = practice.keyMapping.odd THEN "odd" ELSE "even"
           isCorrect == response = correctAnswer
       IN practice' = [practice EXCEPT
            !.trainingTrials[practice.currentTrainingTrial + 1] =
                IF isCorrect THEN "correct" ELSE "wrong",
            !.trainingPhase = "feedback"]
  /\ UNCHANGED <<mainStart, fvars, svars, rvars, tvars, evars>>

\* the 1500 ms feedback timer of handleTrainingResponse fires
feedbackTimer ==
  /\ practice.taskPhase = "training" /\ practice.trainingPhase = "feedback"
  /\ LET n == Len(practice.trainingTrials)
         correctCount == Cardinality({i \in 1..n : practice.trainingTrials[i] = "correct"})
     IN practice' =
          IF practice.currentTrainingTrial < n - 1
          THEN [practice EXCEPT !.currentTrainingTrial = @ + 1,
                                !.trainingPhase = "active"]
          ELSE [practice EXCEPT !.trainingAccuracy = [correct |-> correctCount, total |-> n],
                                !.trainingPhase = "complete"]
  /\ UNCHANGED <<mainStart, fvars, svars, rvars, tvars, evars>>

\* startNSTExperiment: POST /api/start is sent; on success NSTTask runs
startNSTExperiment ==
  /\ CanStartMain(practice)
  /\ mainStart' = [started |-> TRUE, trainingPhase |-> practice.trainingPhase,
                   accuracy |-> practice.trainingAccuracy]
  /\ \E ok \in BOOLEAN :
       practice' = IF ok THEN [practice EXCEPT !.taskPhase = "running"] ELSE practice
  /\ UNCHANGED <<fvars, svars, rvars, tvars, evars>>

InitPractice ==
  /\ ScreensIdle
  /\ PracticeStart
  /\ trialState = [trialNumber |-> 0, digitIndex |-> 0]
  /\ pendingNext = 0 /\ requested = <<>>
  /\ controller = [currentPhase |-> "registration", currentTaskIndex |-> 0,
                   completedTasks |-> <<>>,
                   experimentData |-> [nst |-> "none", effort |-> "none", null |-> "none"]]
  /\ taskOrder = <<>> /\ pendingComplete = <<>> /\ tasksRun = <<>>
  /\ StoreEmpty /\ NoSession
  /\ ParticipantStart
  /\ QueueStart /\ serverAnswers /\ batching
  /\ CameraIdle /\ LifecycleIdle /\ PhotoIdle

NextPractice ==
  \/ startTraining \/ trainingTrialsGenerated \/ handleTrainingResponse
  \/ feedbackTimer \/ startNSTExperiment

SpecPractice == InitPractice /\ [][NextPractice]_vars

(***************************************************************************)
(* ExperimentController                                                    *)
(***************************************************************************)
\* the experiment phases in order
phases == <<"registration", "neutral-capture", "tutorial", "task", "inter-task",
            "tutorial-2", "task-2", "completion">>

\* the task orders the registration assigns
TaskOrders == {<<"physical-effort", "nst">>, <<"nst", "physical-effort">>}

ControllerStart ==
  /\ controller = [currentPhase |-> "registration", currentTaskIndex |-> 0,
                   completedTasks |-> <<>>,
                   experimentData |-> [nst |-> "none", effort |-> "none", null |-> "none"]]
  /\ taskOrder = <<>>
  /\ pendingComplete = <<>>
  /\ tasksRun = <<>>

\* what a task hands to onComplete: its results, or the error of a failed save
TaskData == {"results", "error"}

\* getCurrentTask, for the currentTaskIndex of the calling render
getCurrentTask(index) ==
  IF taskOrder = <<>> \/ index >= Len(taskOrder) THEN "null" ELSE taskOrder[index + 1]

\* how often a task component calls the onComplete it was given:
\* PhysicalEffortTask once from completeTask, NSTTask once for every run of
\* its completion effect, and "No task specified" never
CompleteCalls(task) ==
  IF task = "physical-effort" THEN {1}
  ELSE IF task = "nst" THEN 1..MaxCompletes
  ELSE {0}

\* renderTask mounts the component of the current task; each call of its
\* onComplete carries the currentTaskIndex of the render that passed the handler
MountTask(handler, index) ==
  /\ tasksRun' = Append(tasksRun, getCurrentTask(index))
  /\ \E calls \in CompleteCalls(getCurrentTask(index)) :
       pendingComplete' =
         pendingComplete
         \o [i \in 1..calls |-> [handler |-> handler, currentTaskIndex |-> index]]

ctlUnchanged == UNCHANGED <<fvars, svars, rvars, tvars, pvars>>

\* handleRegistrationComplete, after ParticipantRegistration has put the
\* participant with its task order into the store
handleRegistrationComplete ==
  /\ controller.currentPhase = "registration"
  /\ taskOrder' \in TaskOrders
  /\ controller' = [controller EXCEPT !.currentPhase = "neutral-capture"]
  /\ UNCHANGED <<pendingComplete, tasksRun>>
  /\ ctlUnchanged

\* handleNeutralCaptureComplete, handleInterTaskComplete
handlePhaseComplete ==
  /\ \/ /\ controller.currentPhase = "neutral-capture"
        /\ controller' = [controller EXCEPT !.currentPhase = "tutorial"]
     \/ /\ controller.currentPhase = "inter-task"
        /\ controller' = [controller EXCEPT !.currentPhase = "tutorial-2"]
  /\ UNCHANGED <<taskOrder, pendingComplete, tasksRun>>
  /\ ctlUnchanged

\* handleTutorialComplete, handleSecondTutorialComplete: the task is rendered
handleTutorialComplete ==
  /\ \/ /\ controller.currentPhase = "tutorial"
        /\ controller' = [controller EXCEPT !.currentPhase = "task"]
        /\ MountTask("handleTaskComplete", controller.currentTaskIndex)
     \/ /\ controller.currentPhase = "tutorial-2"
        /\ controller' = [controller EXCEPT !.currentPhase = "task-2"]
        /\ MountTask("handleSecondTaskComplete", controller.currentTaskIndex)
  /\ UNCHANGED taskOrder
  /\ ctlUnchanged

\* setExperimentData(prev => ({...prev, [currentTask]: taskData}))
DataStored(data, currentTask, taskData) ==
  IF currentTask = "nst" THEN [data EXCEPT !.nst = taskData]
  ELSE IF currentTask = "physical-effort" THEN [data EXCEPT !.effort = taskData]
  ELSE [data EXCEPT !.null = taskData]

\* what handleTaskComplete / handleSecondTaskComplete of the render with
\* currentTaskIndex = index do to the state
AfterTaskComplete(c, handler, index, taskData) ==
  LET currentTask == getCurrentTask(index)
      done == [c EXCEPT !.completedTasks = Append(@, currentTask),
                        !.experimentData = DataStored(@, currentTask, taskData)]
  IN IF handler = "handleTaskComplete" /\ index < Len(taskOrder) - 1
     THEN [done EXCEPT !.currentTaskIndex = @ + 1, !.currentPhase = "inter-task"]
     ELSE [done EXCEPT !.currentPhase = "completion"]

\* a task component calls the onComplete prop it was given
onTaskComplete ==
  /\ \E i \in DOMAIN pendingComplete, taskData \in TaskData :
       /\ controller' = AfterTaskComplete(controller, pendingComplete[i].handler,
                                          pendingComplete[i].currentTaskIndex, taskData)
       /\ pendingComplete' = [j \in 1..(Len(pendingComplete) - 1) |->
                                IF j < i THEN pendingComplete[j]
                                ELSE pendingComplete[j + 1]]
  /\ UNCHANGED <<taskOrder, tasksRun>>
  /\ ctlUnchanged

InitController ==
  /\ ScreensIdle
  /\ ControllerStart
  /\ trialState = [trialNumber |-> 0, digitIndex |-> 0]
  /\ pendingNext = 0 /\ requested = <<>>
  /\ practice = [taskPhase |-> "instructions"]
  /\ mainStart = [started |-> FALSE]
  /\ StoreEmpty /\ NoSession
  /\ ParticipantStart
  /\ QueueStart /\ serverAnswers /\ batching
  /\ CameraIdle /\ LifecycleIdle /\ PhotoIdle

NextController ==
  \/ handleRegistrationComplete \/ handlePhaseComplete \/ handleTutorialComplete
  \/ onTaskComplete

SpecController == InitController /\ [][NextController]_vars

(***************************************************************************)
(* PhysicalEffortTask                                                      *)
(***************************************************************************)
Genders == {"M", "F"}

\* effortLevels[participantGender].dots
effortLevels(gender) ==
  IF gender = "M" THEN <<"Dot 2", "Dot 3", "Dot 4">>
  ELSE <<"Dot 1", "Dot 2", "Dot 3">>

getTrainingTrials(gender) ==
  <<[effort |-> "low", dot |-> effortLevels(gender)[1]],
    [effort |-> "high", dot |-> effortLevels(gender)[3]]>>

\* the trials array of generateAndRunTrials before it is shuffled
GeneratedTrials(gender) ==
  [n \in 1..(totalRepetitions * Len(effortLevels(gender))) |->
    [dot |-> effortLevels(gender)[((n - 1) % Len(effortLevels(gender))) + 1],
     rep |-> ((n - 1) \div Len(effortLevels(gender))) + 1]]

Rotate(seq, k) ==
  [n \in 1..Len(seq) |-> seq[((n - 1 + k) % Len(seq)) + 1]]

\* the orders the random shuffle is taken to produce
ShuffleOutcomes(seq) == {Rotate(seq, k) : k \in 0..MaxShuffle}

\* number of trials after which runNextTrial completes the task
TrialsToRun == totalRepetitions * 2

NoCompletion == [sent |-> FALSE]

EffortStart(gender) ==
  [participantGender |-> gender,
   taskPhase |-> "instructions",
   trainingIndex |-> 0,
   trainingComplete |-> FALSE,
   physicalEffortTrials |-> <<>>,
   currentTrial |-> 0,
   timer |-> "none",
   nextTrialIndex |-> 0,
   presented |-> <<>>,
   captures |-> <<>>,
   capturedImages |-> <<>>,
   renderedImages |-> <<>>,
   completion |-> NoCompletion,
   onCompleteCalls |-> <<>>]

effUnchanged == UNCHANGED <<fbase, bbase, neutral, keyHandler>>

\* startTask: the practice begins with the first training trial
startTask ==
  /\ effort.taskPhase = "instructions"
  /\ effort' = [effort EXCEPT !.taskPhase = "training", !.timer = "training"]
  /\ effUnchanged

\* the countdown of a training trial ends (runTrainingSequence)
trainingCountdownEnds ==
  /\ effort.timer = "training"
  /\ LET trainingTrials == getTrainingTrials(effort.participantGender)
     IN effort' = [effort EXCEPT
          !.trainingIndex = @ + 1,
          !.trainingComplete = (effort.trainingIndex + 1 >= Len(trainingTrials)),
          !.timer = IF effort.trainingIndex + 1 < Len(trainingTrials)
                    THEN "training" ELSE "none"]
  /\ effUnchanged

\* completeTask: the completion data are built from the state that the
\* render whose handler started the trials has seen
completeTask(e) ==
  [e EXCEPT !.taskPhase = "complete",
            !.timer = "none",
            !.completion = [sent |-> TRUE, answered |-> FALSE,
                            totalTrials |-> totalRepetitions * 2,
                            capturedImages |-> Len(e.renderedImages)]]

\* runNextTrial(trialIndex)
runNextTrial(e, trialIndex) ==
  IF trialIndex >= TrialsToRun THEN completeTask(e)
  ELSE [e EXCEPT !.currentTrial = trialIndex,
                 !.presented = Append(@, e.physicalEffortTrials[trialIndex + 1]),
                 !.timer = "capture"]

\* startExperiment with generateAndRunTrials ("Start Main Task")
startExperiment ==
  /\ effort.taskPhase = "training" /\ effort.trainingComplete
  /\ \E shuffled \in ShuffleOutcomes(GeneratedTrials(effort.participantGender)) :
       effort' = runNextTrial(
                   [effort EXCEPT !.taskPhase = "experiment",
                                  !.currentTrial = 0,
                                  !.renderedImages = effort.capturedImages,
                                  !.physicalEffortTrials = shuffled],
                   0)
  /\ effUnchanged

PendingCaptures(e) == {i \in DOMAIN e.captures : e.captures[i].state = "pending"}

FailedCaptures(e) == {i \in DOMAIN e.captures : e.captures[i].state = "failed"}

\* the capture countdown of runNextTrial reaches zero: captureTrialPhoto is
\* started and not awaited, then the rest period or completeTask follows
captureCountdownEnds ==
  /\ effort.timer = "capture"
  /\ Cardinality(PendingCaptures(effort)) < MaxOutstanding
  /\ LET trial == effort.physicalEffortTrials[effort.currentTrial + 1]
         started == [effort EXCEPT
                       !.captures = Append(@, [trial |-> trial, state |-> "pending"])]
     IN effort' =
          IF effort.currentTrial < TrialsToRun - 1
          THEN [started EXCEPT !.timer = "rest",
                               !.nextTrialIndex = effort.currentTrial + 1]
          ELSE completeTask(started)
  /\ effUnchanged

\* the rest period is over (startRestPeriod)
restEnds ==
  /\ effort.timer = "rest"
  /\ effort' = runNextTrial(effort, effort.nextTrialIndex)
  /\ effUnchanged

\* captureTrialPhoto resumes: captureBothCameras and the upload succeeded and
\* the capture is appended, or one of them threw
captureResolves ==
  /\ \E i \in PendingCaptures(effort) :
       \/ effort' = [effort EXCEPT
            !.captures[i].state = "saved",
            !.capturedImages = Append(@, effort.captures[i].trial)]
       \/ /\ Cardinality(FailedCaptures(effort)) < MaxFailed
          /\ effort' = [effort EXCEPT !.captures[i].state = "failed"]
  /\ effUnchanged

\* POST /api/physical-effort-complete is answered
completionAnswered ==
  /\ effort.completion.sent /\ ~effort.completion.answered
  /\ \E ok \in BOOLEAN :
       effort' = [effort EXCEPT
         !.completion.answered = TRUE,
         !.onCompleteCalls = Append(@, IF ok THEN "results" ELSE "error")]
  /\ effUnchanged

InitEffort ==
  /\ \E gender \in Genders : effort = EffortStart(gender)
  /\ NeutralIdle /\ HandlerIdle
  /\ StoreEmpty /\ NoSession /\ TaskIdle
  /\ ParticipantStart
  /\ QueueStart /\ serverAnswers /\ batching
  /\ CameraIdle /\ LifecycleIdle /\ PhotoIdle

NextEffort ==
  \/ startTask \/ trainingCountdownEnds \/ startExperiment
  \/ captureCountdownEnds \/ restEnds \/ captureResolves \/ completionAnswered

SpecEffort == InitEffort /\ [][NextEffort]_vars

(***************************************************************************)
(* NeutralCapture                                                          *)
(***************************************************************************)
NeutralStart ==
  [phase |-> "instructions",
   countdown |-> CountdownFrom,
   isCapturing |-> FALSE,
   captureError |-> "null",
   captureCount |-> 0,
   pc |-> "idle",
   captures |-> <<>>,
   attempted |-> <<>>,
   saveResult |-> "none",
   runs |-> 0,
   onCompleteTimers |-> <<>>,
   onCompleteCalls |-> <<>>]

neuUnchanged == UNCHANGED <<fbase, bbase, effort, keyHandler>>

\* startCountdown ("Ready - Start Capture"; the button is disabled while
\* the cameras are not initialized or isCapturing)
startCountdown ==
  /\ neutral.phase = "instructions" /\ ~neutral.isCapturing
  /\ neutral.runs < MaxRuns
  /\ neutral' = [neutral EXCEPT !.captureError = "null",
                                !.phase = "countdown",
                                !.countdown = CountdownFrom,
                                !.runs = @ + 1]
  /\ neuUnchanged

\* the countdown effect: the 1 s timer of a positive countdown
countdownTick ==
  /\ neutral.phase = "countdown" /\ neutral.countdown > 0
  /\ neutral' = [neutral EXCEPT !.countdown = @ - 1]
  /\ neuUnchanged

\* captures.length === 0 after the loop
NothingCaptured_Never(taken) == FALSE
NothingCaptured(taken) == Len(taken) = 0

\* performMultipleCaptures leaves its loop: no capture, or the upload starts
AfterLoop(n) ==
  IF NothingCaptured(n.captures)
  THEN [n EXCEPT !.captureError = "Failed to capture any photos",
                 !.phase = "instructions",
                 !.isCapturing = FALSE,
                 !.pc = "idle"]
  ELSE [n EXCEPT !.pc = "save"]

\* the loop head of performMultipleCaptures: setCaptureCount(i + 1) and the
\* call of captureBothCameras, or the end of the loop
LoopHead(n) ==
  IF n.captureCount < TOTAL_CAPTURES
  THEN [n EXCEPT !.captureCount = @ + 1,
                 !.attempted = Append(@, n.captureCount + 1),
                 !.pc = "capture"]
  ELSE AfterLoop(n)

\* the countdown effect at countdown 0: startCapture, performMultipleCaptures
\* up to its first await
startCapture ==
  /\ neutral.phase = "countdown" /\ neutral.countdown = 0
  /\ neutral' = LoopHead([neutral EXCEPT !.phase = "capturing",
                                         !.isCapturing = TRUE,
                                         !.captureError = "null",
                                         !.captureCount = 0,
                                         !.captures = <<>>,
                                         !.attempted = <<>>,
                                         !.saveResult = "none"])
  /\ neuUnchanged

\* await captureBothCameras(...) settles: a photo of at least one camera and
\* the capture is pushed, or no photo / an exception and the catch continues
\* with the next capture
captureSettles ==
  /\ neutral.pc = "capture"
  /\ \/ neutral' =
          IF neutral.captureCount < TOTAL_CAPTURES
          THEN [neutral EXCEPT !.captures = Append(@, neutral.captureCount),
                               !.pc = "interval"]
          ELSE LoopHead([neutral EXCEPT !.captures = Append(@, neutral.captureCount)])
     \/ neutral' = LoopHead(neutral)
  /\ neuUnchanged

\* the CAPTURE_INTERVAL wait between two captures is over
intervalElapsed ==
  /\ neutral.pc = "interval"
  /\ neutral' = LoopHead(neutral)
  /\ neuUnchanged

\* await saveNeutralCaptures(neutralData) settles: 'complete' and the 2 s
\* timer of onComplete, or the catch; the finally block in both cases
saveSettles ==
  /\ neutral.pc = "save"
  /\ \/ neutral' = [neutral EXCEPT
            !.saveResult = "ok",
            !.phase = "complete",
            !.onCompleteTimers = Append(@, Len(neutral.captures)),
            !.isCapturing = FALSE,
            !.pc = "idle"]
     \/ neutral' = [neutral EXCEPT
            !.saveResult = "failed",
            !.captureError = "Failed to save captures",
            !.phase = "instructions",
            !.isCapturing = FALSE,
            !.pc = "idle"]
  /\ neuUnchanged

\* setTimeout(() => onComplete(neutralData), 2000) fires
neutralCompleteTimer ==
  /\ neutral.onCompleteTimers # <<>>
  /\ neutral' = [neutral EXCEPT
       !.onCompleteTimers = Tail(@),
       !.onCompleteCalls = Append(@, Head(neutral.onCompleteTimers))]
  /\ neuUnchanged

InitNeutral ==
  /\ neutral = NeutralStart
  /\ EffortIdle /\ HandlerIdle
  /\ StoreEmpty /\ NoSession /\ TaskIdle
  /\ ParticipantStart
  /\ QueueStart /\ serverAnswers /\ batching
  /\ CameraIdle /\ LifecycleIdle /\ PhotoIdle

NextNeutral ==
  \/ startCountdown \/ countdownTick \/ startCapture \/ captureSettles
  \/ intervalElapsed \/ saveSettles \/ neutralCompleteTimer

SpecNeutral == InitNeutral /\ [][NextNeutral]_vars

(***************************************************************************)
(* ResponseHandler                                                         *)
(***************************************************************************)
\* the keys of a keypress event: the two response keys and any other key
PressedKeys == ResponseKeys \cup {"x"}

HandlerStart(mapping, digit) ==
  [trialState |-> [phase |-> "running", currentDigit |-> digit,
                   digitIndex |-> 0, trialNumber |-> 1],
   keyMapping |-> mapping,
   displayBlank |-> FALSE,
   queueTimers |-> <<>>,
   blankTimers |-> 0,
   dispatched |-> <<>>,
   presses |-> 0]

hdlUnchanged == UNCHANGED <<fbase, bbase, effort, neutral>>

\* the responseData of handleKeyPress for the state of its render
responseData(h, key) ==
  LET isOdd == IsOddDigit(h.trialState.currentDigit)
      responseType == IF key = h.keyMapping.odd THEN "odd" ELSE "even"
  IN [response |-> key,
      responseType |-> responseType,
      digit |-> h.trialState.currentDigit,
      isCorrect |-> \/ responseType = "odd" /\ isOdd
                    \/ responseType = "even" /\ ~isOdd,
      position |-> h.trialState.digitIndex,
      trialNumber |-> h.trialState.trialNumber]

\* setDisplayBlank(v) of the experiment slice
setDisplayBlank(h, v) == [h EXCEPT !.displayBlank = v]

\* handleKeyPress: a key other than 'f' / 'j', or a phase other than
\* 'running', is ignored; otherwise the display is blanked and the 500 ms
\* timer of queueResponse is started
handleKeyPress ==
  /\ keyHandler.presses < MaxPresses
  /\ \E key \in PressedKeys :
       LET pressed == [keyHandler EXCEPT !.presses = @ + 1]
       IN keyHandler' =
            IF key \notin ResponseKeys \/ keyHandler.trialState.phase # "running"
            THEN pressed
            ELSE [setDisplayBlank(pressed, TRUE) EXCEPT
                    !.queueTimers = Append(@, responseData(keyHandler, key))]
  /\ hdlUnchanged

\* the 500 ms timer: dispatch(queueResponse(responseData)) and the 50 ms
\* timer of setDisplayBlank(false)
queueResponseTimer ==
  /\ keyHandler.queueTimers # <<>>
  /\ keyHandler' = [keyHandler EXCEPT
       !.queueTimers = Tail(@),
       !.dispatched = Append(@, Head(keyHandler.queueTimers)),
       !.blankTimers = @ + 1]
  /\ hdlUnchanged

\* the 50 ms timer: dispatch(setDisplayBlank(false))
displayTimer ==
  /\ keyHandler.blankTimers > 0
  /\ keyHandler' = [setDisplayBlank(keyHandler, FALSE) EXCEPT !.blankTimers = @ - 1]
  /\ hdlUnchanged

\* the store shows the next digit of the trial
digitAdvances ==
  /\ keyHandler.trialState.digitIndex < MaxAdvance
  /\ \E digit \in TrialDigits :
       keyHandler' = [keyHandler EXCEPT
         !.trialState.digitIndex = @ + 1,
         !.trialState.currentDigit = digit]
  /\ hdlUnchanged

InitHandler ==
  /\ \E mapping \in KeyMappings, digit \in TrialDigits :
       keyHandler = HandlerStart(mapping, digit)
  /\ EffortIdle /\ NeutralIdle
  /\ StoreEmpty /\ NoSession /\ TaskIdle
  /\ ParticipantStart
  /\ QueueStart /\ serverAnswers /\ batching
  /\ CameraIdle /\ LifecycleIdle /\ PhotoIdle

NextHandler ==
  handleKeyPress \/ queueResponseTimer \/ displayTimer \/ digitAdvances

SpecHandler == InitHandler /\ [][NextHandler]_vars

(***************************************************************************)
(* Properties of the capture queue                                         *)
(***************************************************************************)
Range(s) == {s[i] : i \in DOMAIN s}

PosIn(s, x) == CHOOSE i \in DOMAIN s : s[i] = x

\* the request is in the buffer: in the committed queue or in an append that
\* is not committed yet
InBuffer(i) ==
  \/ i \in Range(captureQueue)
  \/ \E k \in DOMAIN pendingUpdates :
       pendingUpdates[k].op = "append" /\ pendingUpdates[k].arg = i

InFlight(i) == \E k \in DOMAIN workers : workers[k].item = i

PendingSlices == Cardinality({k \in DOMAIN pendingUpdates : pendingUpdates[k].op = "slice"})

\* C1: the uploads (POST /api/nst-capture) are issued in the order in which
\* their requests were enqueued, whether or not earlier requests failed.
C1_UploadsInEnqueueOrder ==
  \A i, j \in DOMAIN uploads :
    i < j => PosIn(enqueued, uploads[i]) < PosIn(enqueued, uploads[j])

\* C1 witness: a second upload was issued after the first request failed.
C1_Witness ==
  /\ Len(uploads) >= 2
  /\ uploads[1] \in failed

\* C2: at most one processNextCapture invocation (capture + upload) is in
\* flight at any time.
C2_AtMostOneInFlight == Len(workers) <= 1

\* C2 witness: an upload is in flight while two more requests wait in the
\* committed queue behind it.
C2_Witness ==
  /\ Len(workers) = 1
  /\ workers[1].pc = "upload"
  /\ Len(captureQueue) = 3
  /\ ~isComplete

\* C3: no request is attempted twice, a request that has left the buffer was
\* attempted exactly once, and while the component is mounted the requests
\* that are finished but still in the committed queue are exactly the ones a
\* pending removal takes from its head.
C3_AttemptedExactlyOnce ==
  /\ \A i \in Range(enqueued) :
       /\ attempts[i] <= 1
       /\ ~InBuffer(i) => attempts[i] = 1
  /\ mounted =>
       LET finished == {i \in Range(captureQueue) : attempts[i] = 1 /\ ~InFlight(i)}
       IN /\ Cardinality(finished) = PendingSlices
          /\ \A k \in 1..Len(captureQueue) :
               captureQueue[k] \in finished <=> k <= PendingSlices

\* C3 witness: a request failed and was removed, and the drain went on to
\* attempt the request behind it.
C3_Witness ==
  \E f \in failed, j \in Range(enqueued) :
    /\ j > f
    /\ ~InBuffer(f)
    /\ attempts[f] = 1
    /\ attempts[j] = 1

\* C4 (as claimed): while NSTTask is mounted every request in the queue is
\* eventually removed from it, and the queue eventually becomes empty, also
\* when the server never answers an upload.
C4_QueueDrains ==
  /\ \A i \in 1..MaxReq :
       (mounted /\ i \in Range(captureQueue))
         ~> (~mounted \/ i \notin Range(captureQueue))
  /\ (mounted /\ captureQueue # <<>>) ~> (~mounted \/ captureQueue = <<>>)

SyntheticCount(c) ==
  (IF c.main = "synthetic" THEN 1 ELSE 0)
  + (IF c.second = "synthetic" THEN 1 ELSE 0)

\* C6 (as claimed): with no enumerated device captureBothCameras returns two
\* synthetic artifacts; with exactly one enumerated device exactly one of the
\* two artifacts is synthetic, whatever the two selections are.
C6_FallbackByDeviceCount ==
  lastCapture # NoCapture =>
    /\ lastCapture.cams = 0 => SyntheticCount(lastCapture) = 2
    /\ lastCapture.cams = 1 => SyntheticCount(lastCapture) = 1

\* C7 (as claimed): a stored capture that holds a synthetic image says so in
\* its metadata (an isSynthetic entry).
C7_SyntheticFlagged ==
  \A s \in stored :
    (s.photos.main = "synthetic" \/ s.photos.second = "synthetic")
      => "isSynthetic" \in s.fields

(***************************************************************************)
(* Properties of stream recovery                                           *)
(***************************************************************************)
TimersOf(r) == Cardinality({k \in DOMAIN timers : timers[k].role = r})

\* C8: for each role the restart attempts made and the ones still scheduled
\* never exceed two per 'ended' event of the role's tracks, so no restart
\* runs without a track having ended.
C8_RestartBounded ==
  \A r \in Roles : restartAttempts[r] + TimersOf(r) <= 2 * endedEvents[r]

\* C8 witness: the main track ended once, the one restart attempt failed to
\* acquire a stream, and nothing further is scheduled or in flight.
C8_Witness ==
  /\ endedEvents["main"] = 1
  /\ restartAttempts["main"] = 1
  /\ streamRef["main"] = 0
  /\ captureError = "main-failed"
  /\ acquiring = <<>>
  /\ playing = <<>>
  /\ timers = <<>>

\* C9 (as claimed): when the getUserMedia call of a restartCamera attempt is
\* rejected, one more attempt is scheduled.
C9_SecondAttemptScheduled ==
  [][\A k \in DOMAIN acquiring :
       (/\ acquiring[k].caught
        /\ acquiring' = RemoveAt(acquiring, k)
        /\ streams' = streams)
         => TimersOf(acquiring[k].role)' = TimersOf(acquiring[k].role) + 1]_vars

\* C10 (as claimed): a tick of the health check that finds a role with a
\* selected device whose stream is not alive while the role is marked active
\* marks the role inactive and starts a restart attempt.
C10_HealthCheckRecovers ==
  [][healthTicks' # healthTicks =>
       \A r \in Roles :
         (/\ selected[r] # 0
          /\ streamRef[r] # 0
          /\ ~Alive(streamRef[r])
          /\ streamActive[r])
           => (~streamActive'[r] /\ restartAttempts'[r] = restartAttempts[r] + 1)]_vars

(***************************************************************************)
(* Properties of device enumeration                                        *)
(***************************************************************************)
InitFailed == initPc \in {"unsupported", "denied", "failed"}

\* C11: when initializeCameraDevices has ended because the capture API is
\* missing, the permission was denied / no device was found, or listing the
\* devices failed, the device list is empty and camerasInitialized is true.
C11_EnumerationFailureNonFatal ==
  InitFailed => (cameras = 0 /\ camerasInitialized)

\* C11 witness: listing failed after the grant, and the provider went on to
\* start the camera of a saved selection.
C11_Witness ==
  /\ initPc = "failed"
  /\ camerasInitialized
  /\ acquireCount > 0

\* C12 (as claimed): once initializeCameraDevices has finished, a temporary
\* stream it obtained has been stopped.
C12_TransientGrantReleased ==
  (initPc \in {"listed", "failed"}) => tempStream = "stopped"

(***************************************************************************)
(* Properties of the role bindings                                         *)
(***************************************************************************)
LiveStreamsOf(r) == {i \in DOMAIN streams : streams[i].role = r /\ streams[i].live}

\* no start*Camera call of the role is between its awaits and no restart of
\* the role is scheduled
Settled(r) ==
  /\ \A k \in DOMAIN acquiring : acquiring[k].role # r
  /\ \A k \in DOMAIN playing : playing[k].role # r
  /\ \A k \in DOMAIN timers : timers[k].role # r

\* C13 (as claimed): at every moment at most one acquired stream of a role
\* has a live track.
C13_OneLiveStreamPerRole ==
  \A r \in Roles : Cardinality(LiveStreamsOf(r)) <= 1

\* C15 (as claimed): a step that clears the selection of a role stops the
\* stream bound to the role and clears the binding.
C15_DeselectionDestroysStream ==
  [][\A r \in Roles :
       (selected[r] # 0 /\ selected'[r] = 0)
         => /\ streamRef'[r] = 0
            /\ streamRef[r] # 0 => ~streams'[streamRef[r]].live]_vars

\* C16 (as claimed): whenever no attach or restart of a role is pending and
\* a device is selected for the role, the stream bound to the role was
\* acquired for the selected device.
C16_StreamAlignedWithSelection ==
  \A r \in Roles :
    (Settled(r) /\ selected[r] # 0 /\ streamRef[r] # 0)
      => streams[streamRef[r]].dev = selected[r]

(***************************************************************************)
(* Properties of teardown                                                  *)
(***************************************************************************)
\* C14 (as claimed): once the provider is torn down no stream acquired by
\* start*Camera has a live track, whatever was pending at teardown.
C14_NoLiveStreamAfterTeardown ==
  ~providerMounted => \A i \in DOMAIN streams : ~streams[i].live

(***************************************************************************)
(* Properties of capturePhoto                                              *)
(***************************************************************************)
ResultOf(r) == IF r = "main" THEN lastCapture.main ELSE lastCapture.second

Other(r) == IF r = "main" THEN "second" ELSE "main"

\* C18: a capturePhoto call that fails (missing element, draw error, no
\* blob) yields null for its role, nothing is raised to the caller of
\* captureBothCameras, and the other role's result is delivered as its own
\* call produced it.
C18_CaptureFailureIsLocal ==
  \A r \in Roles :
    /\ ResultOf(r) # "raised"
    /\ (photo[r].pc = "done" /\ photo[r].outcome \in {"noRefs", "drawError", "noBlob"})
         => /\ ResultOf(r) = "null"
            /\ photo[Other(r)].pc = "done" =>
                 ResultOf(Other(r)) =
                   (IF photo[Other(r)].outcome = "mock" THEN "synthetic"
                    ELSE IF photo[Other(r)].outcome = "ok" THEN "real"
                    ELSE "null")

\* C18 witness: drawing the main frame threw, and captureBothCameras has the
\* real image of the second role next to the null of the main role.
C18_Witness ==
  /\ photo["main"].pc = "done"
  /\ photo["main"].outcome = "drawError"
  /\ photo["second"].pc = "done"
  /\ lastCapture.main = "null"
  /\ lastCapture.second = "real"

\* C19: every capturePhoto call in progress settles, and a call that ends
\* without video dimensions and without a draw or encode error has used the
\* default canvas size and produced an image.
C19_CaptureTerminates ==
  /\ \A r \in Roles : InProgress(r) ~> (photo[r].pc = "done")
  /\ [](\A r \in Roles :
          (photo[r].pc = "done" /\ ~photo[r].dims /\ photo[r].outcome = "ok")
            => (CanvasSize(photo[r].dims) = "default" /\ ResultOf(r) = "real"))

\* C19 witness: a call that found the video not ready has settled without
\* dimensions, with an image of the default size.
C19_Witness ==
  \E r \in Roles :
    /\ photo[r].pc = "done"
    /\ photo[r].outcome = "ok"
    /\ ~photo[r].dims
    /\ ResultOf(r) = "real"

\* C17 (as claimed): no restart of a role's stream is started while a
\* capturePhoto call of the role is in progress.
C17_RestartSerializedAgainstCapture ==
  [][\A r \in Roles :
       restartAttempts'[r] # restartAttempts[r] => ~InProgress(r)]_vars

(***************************************************************************)
(* Properties of the participant document                                  *)
(***************************************************************************)
RecordsOf(t) == {i \in DOMAIN tasksCompleted : tasksCompleted[i].taskType = t}

\* C20 (as claimed): however often a task type is marked complete, the
\* participant holds at most one completion record of that task type.
C20_CompletionIdempotent ==
  \A t \in TaskTypes : Cardinality(RecordsOf(t)) <= 1

CompletedTypes == {tasksCompleted[i].taskType : i \in DOMAIN tasksCompleted}

\* C21 (as claimed): the session status is a function of the set of completed
\* task types: it is 'completed' only when all three task types have been
\* completed, and 'in-progress' for every non-empty proper subset of them.
C21_StatusFromCompletedTypes ==
  /\ participantStatus.status = "completed" => CompletedTypes = TaskTypes
  /\ (CompletedTypes # {} /\ CompletedTypes # TaskTypes)
       => participantStatus.status = "in-progress"

(***************************************************************************)
(* Properties of the capture store                                         *)
(***************************************************************************)
\* the captures the store holds for trial t, digit position d
CapturesAt(t, d) ==
  {n \in DOMAIN metadataDir :
     metadataDir[n].trialNumber = t /\ metadataDir[n].digitIndex = d}

\* C22: after any sequence of capture uploads the store holds at most one
\* capture per (trialNumber, digitIndex), and every position uploaded for,
\* also several positions of one trial, holds one.
C22_OneCapturePerPosition ==
  /\ \A t \in 0..(MaxTrialNo + 1), d \in 0..14 : Cardinality(CapturesAt(t, d)) <= 1
  /\ \A k \in posted : Cardinality(CapturesAt(k[1], k[2])) = 1

\* a position was uploaded twice and another position of the same trial once
C22_Witness ==
  /\ uploadCount > Cardinality(posted)
  /\ \E k1 \in posted, k2 \in posted : k1[1] = k2[1] /\ k1[2] # k2[2]

(***************************************************************************)
(* Properties of the results                                               *)
(***************************************************************************)
\* C23: for every digit, key mapping and response key, validateResponse
\* returns true exactly when (digit is odd) = (response = mapping.odd); with
\* odd on 'f' and even on 'j', digit 4 is correct for 'j' and wrong for 'f'.
C23_CorrectnessDerivation ==
  (validated.digit # -1 /\ validated.key \in ResponseKeys
     /\ validated.mapping \in KeyMappings)
    => /\ validated.result
            = ((validated.digit % 2 = 1) = (validated.key = validated.mapping.odd))
       /\ (validated.digit = 4 /\ validated.mapping = [odd |-> "f", even |-> "j"])
            => (validated.result = (validated.key = "j"))

\* validateResponse was called on digit 4 and key 'j' with odd on 'f'
C23_Witness ==
  /\ validated.digit = 4
  /\ validated.key = "j"
  /\ validated.mapping = [odd |-> "f", even |-> "j"]
  /\ validated.result

\* the response event recorded for position pos of trial i, if any
EventsAt(events, i, pos) ==
  {n \in DOMAIN events : events[n].trial = i /\ events[n].position = pos}

\* C24 (as claimed): in the results of getFullResults a position nobody
\* responded to has isCorrect = null, not false.
C24_NoResponseIsNull ==
  (results.called /\ ~results.raised)
    => \A i \in DOMAIN results.trialDetails :
         \A pos \in DOMAIN results.trialDetails[i].responses :
           EventsAt(results.of, i, pos) = {}
             => results.trialDetails[i].responses[pos].isCorrect = "null"

\* C25 (as claimed): getFullResults returns, and what it reports at position
\* p of trial t is the response, response type, timestamp and correctness of
\* the response event recorded for exactly (t, p).
C25_JoinByTrialAndPosition ==
  results.called
    => /\ ~results.raised
       /\ \A n \in DOMAIN results.of :
            LET e == results.of[n]
                entry == results.trialDetails[e.trial].responses[e.position]
            IN /\ entry.response = e.key
               /\ entry.responseType = e.responseType
               /\ entry.timestamp = e.timestamp
               /\ entry.isCorrect
                    = JsonBoolean((DigitValue(entry.digit) % 2 = 1) = (e.key = keyMapping.odd))

\* C26 (as claimed): processTrialDetails returns, for every trial, exactly
\* one entry per digit position, positions 1..length in order, and the entry
\* of a position without a recorded response has response = null.
C26_MissingDataRepresented ==
  results.called
    => /\ ~results.raised
       /\ DOMAIN results.trialDetails = DOMAIN trials
       /\ \A i \in DOMAIN trials :
            /\ DOMAIN results.trialDetails[i].responses = 1..Len(trials[i].number)
            /\ \A pos \in 1..Len(trials[i].number) :
                 LET entry == results.trialDetails[i].responses[pos]
                 IN /\ entry.position = pos
                    /\ entry.digit = trials[i].number[pos]
                    /\ EventsAt(results.of, i, pos) = {} => entry.response = "null"

RequestsAt(p) == {i \in DOMAIN requested : requested[i].digitIndex = p}

\* C28 (as claimed): a capture request is enqueued for a digit exactly when
\* its index is 0 or a multiple of 3: every such digit the trial has passed
\* has exactly one request, other digits have none, and a finished 15-digit
\* trial has exactly the five requests of the positions 0, 3, 6, 9, 12.
C28_CapturePolicy ==
  /\ \A p \in 0..(NumDigits - 1) :
       /\ (p % 3 = 0 /\ p < trialState.digitIndex) => Cardinality(RequestsAt(p)) = 1
       /\ p % 3 # 0 => RequestsAt(p) = {}
  /\ trialState.digitIndex = NumDigits => Len(requested) = 5

(***************************************************************************)
(* Properties of the practice                                              *)
(***************************************************************************)
\* C29: the main NST experiment is started (POST /api/start) only when a
\* practice round has completed with an accuracy of at least 80 percent, and
\* after a round below 80 percent it cannot be started, only the practice
\* retried.
C29_PracticeGate ==
  /\ mainStart.started
       => /\ mainStart.trainingPhase = "complete"
          /\ mainStart.accuracy.correct * 100 >= 80 * mainStart.accuracy.total
  /\ (practice.trainingPhase = "complete"
      /\ practice.trainingAccuracy.correct * 100 < 80 * practice.trainingAccuracy.total)
       => (~ENABLED startNSTExperiment /\ ENABLED startTraining)

\* the main task was started after a retried practice
C29_Witness ==
  /\ mainStart.started
  /\ practice.retried
  /\ practice.taskPhase = "running"

(***************************************************************************)
(* Properties of the experiment flow                                       *)
(***************************************************************************)
PhaseNo(phase) == CHOOSE n \in DOMAIN phases : phases[n] = phase

TimesIn(seq, x) == Cardinality({i \in DOMAIN seq : seq[i] = x})

CapturedTrials(e) == [i \in DOMAIN e.captures |-> e.captures[i].trial]

\* C31 (as claimed): when completeTask has been called, every generated trial
\* (5 repetitions of each of the 3 assigned dots) has been presented once and
\* its capture has been started once.
C31_EveryTrialRun ==
  effort.completion.sent =>
    \A n \in DOMAIN GeneratedTrials(effort.participantGender) :
      LET trial == GeneratedTrials(effort.participantGender)[n]
      IN /\ TimesIn(effort.presented, trial) = 1
         /\ TimesIn(CapturedTrials(effort), trial) = 1

\* C32 (as claimed): the completion request is issued only when no capture
\* or upload of a trial that was run is still unresolved.
C32_CompletionAfterCaptures ==
  [][(~effort.completion.sent /\ effort'.completion.sent)
       => PendingCaptures(effort') = {}]_vars

\* C33 (as claimed): the capturedImages count of the completion request is
\* the number of captures saved when completeTask runs.
C33_ReportedCaptureCount ==
  [][(~effort.completion.sent /\ effort'.completion.sent)
       => effort'.completion.capturedImages = Len(effort'.capturedImages)]_vars

C35_OnCompleteReached == isComplete ~> (onCompleteCalls > 0)

(***************************************************************************)
(* Properties of the baseline capture                                      *)
(***************************************************************************)
\* performMultipleCaptures has returned in this step
NeutralRunEnds == neutral.pc # "idle" /\ neutral'.pc = "idle"

\* C36: when performMultipleCaptures returns, all 5 captures have been
\* attempted; if at least one succeeded and the upload succeeded, onComplete
\* is scheduled (and it is called for no other reason); otherwise the phase
\* is back at 'instructions' with an error set and isCapturing false.
C36_NeutralTolerance ==
  [][/\ NeutralRunEnds =>
          /\ neutral'.attempted = [i \in 1..TOTAL_CAPTURES |-> i]
          /\ IF Len(neutral'.captures) >= 1 /\ neutral'.saveResult = "ok"
             THEN Len(neutral'.onCompleteTimers) = Len(neutral.onCompleteTimers) + 1
             ELSE /\ neutral'.onCompleteTimers = neutral.onCompleteTimers
                  /\ neutral'.phase = "instructions"
                  /\ neutral'.captureError # "null"
                  /\ ~neutral'.isCapturing
     /\ ~NeutralRunEnds =>
          Len(neutral'.onCompleteTimers) <= Len(neutral.onCompleteTimers)
     /\ Len(neutral'.onCompleteCalls) > Len(neutral.onCompleteCalls) =>
          Len(neutral'.onCompleteTimers) < Len(neutral.onCompleteTimers)]_vars

\* a run with failed captures ended in onComplete, after a run that failed
C36_Witness ==
  /\ neutral.runs > 1
  /\ neutral.onCompleteCalls # <<>>
  /\ Len(neutral.captures) \in 1..(TOTAL_CAPTURES - 1)
  /\ Len(neutral.attempted) = TOTAL_CAPTURES

(***************************************************************************)
(* Properties of the response handler                                      *)
(***************************************************************************)
\* C37 (as claimed): queueResponse is dispatched at most once for one
\* (trialNumber, digitIndex), however often 'f' / 'j' is pressed.
C37_OneResponsePerDigit ==
  \A i, j \in DOMAIN keyHandler.dispatched :
    (/\ keyHandler.dispatched[i].trialNumber = keyHandler.dispatched[j].trialNumber
     /\ keyHandler.dispatched[i].position = keyHandler.dispatched[j].position)
      => i = j

====
